---- MODULE Spec2Model ----
(***************************************************************************)
(* Verification model of the concurrency core of LiangHuDream/CppLibs.     *)
(*                                                                         *)
(* Part 1: PoolTypeStructure::ThreadPool                                   *)
(*   src/PoolTypeStructure/ThreadPool/thread_pool.h                        *)
(*   src/PoolTypeStructure/ThreadPool/thread_pool.cpp                      *)
(*                                                                         *)
(* Threads of the model: the worker threads created by the constructor,    *)
(* client threads calling SubmitTask, and client threads calling Shutdown  *)
(* (the destructor is a call of Shutdown, thread_pool.cpp:36).             *)
(* Every access to shared state that the code does not protect by the      *)
(* queue mutex is a step of its own, so that all interleavings of the      *)
(* atomic flag with the mutex/condition-variable protocol are explored.    *)
(*                                                                         *)
(* Part 2: TaskPool (priority pool)                                        *)
(*   src/Books/CPPCurrencyProgramming2th/xxx/ch4/task_pool.hpp             *)
(*                                                                         *)
(* Part 3: LockFreeQueue<int>                                              *)
(*   src/Books/CPPCurrencyProgramming2th/xxx/ch5/design_2.cpp              *)
(*                                                                         *)
(* Part 4: BoundedBuffer, ch4/design_3.cpp                                 *)
(* Part 5: DatabaseConnectionPool, ch4/design_4.cpp                        *)
(* Part 6: SafeCache, ch4/design_1.cpp                                     *)
(* Part 7: C ThreadPool, Study_ThreadPool/yzj/c_vs_cpp/thread_pool/c       *)
(* Part 8: C thread_pool, Study_ThreadPool/yzj/follow_video                *)
(* Part 9: FunctionalMutualExclusionHandle, QtProject                      *)
(* Part 10: ThreadPool of practice/thrdPool.cpp and c_vs_cpp/cpp/main.cpp  *)
(* Part 11: AsyncLogger, ch4/design_5.cpp                                  *)
(* Part 12: AtomicReadWriteLock, ch5/design_4.cpp                          *)
(* Part 13: ThreadSafeCircularBuffer, ch5/design_3.cpp                     *)
(* Part 14: double-checked Singleton, Basic/Singleton/DoubleChecked.cpp    *)
(*                                                                         *)
(* Each part has its own initial predicate, next-state relation and        *)
(* specification; the variables of the other parts stay at a fixed value.  *)
(***************************************************************************)
EXTENDS Integers, Sequences, FiniteSets, TLC

\* ---------------------------------------------------------------- bounds
NumWorkers == 2
NumSubmitters == 2
NumClosers == 2
MaxTasks == 2
MaxShutdownCalls == 2
TPMaxThreads == 2
TPNumProducers == 2
TPMaxTasks == 3
TPMaxPriority == 3
BBCapacity == 2
BBNumProducers == 2
BBNumConsumers == 2
BBMaxMessages == 4
maxConnections == 2
DCPNumThreads == 3
DCPMaxCalls == 4
SCNumThreads == 2
SCNumKeys == 2
SCMaxCalls == 3
CTPNumThreads == 2
CTPTaskCount == 3
FVNumThreads == 2
FVNumProducers == 2
FVMaxTasks == 3
QtNumFunctions == 3
QtMaxCalls == 3
QtMaxRegOps == 1
QtMaxPending == 5
SPNumThreads == 2
SPMaxTasks == 3
MAX_QUEUE_SIZE == 2
ALMaxMessages == 4
ALMaxFlushes == 1
RWNumThreads == 3
CBCapacity == 3
CBNumWriters == 2
CBNumReaders == 2
CBMaxWrites == 4
SGNumThreads == 3
LFQNumThreads == 2
LFQMaxAddr == 3
LFQMaxOps == 6
QueueCapacity == 2

Workers == 1..NumWorkers
Submitters == 1..NumSubmitters
Closers == 1..NumClosers
Tasks == 1..MaxTasks
TPWorkers == 1..TPMaxThreads
TPProducers == 1..TPNumProducers
TPTasks == 1..TPMaxTasks
LFQThreads == 1..LFQNumThreads
CTPWorkers == 1..CTPNumThreads
SGThreads == 1..SGNumThreads
RWThreads == 1..RWNumThreads
ALMainThread == 0
ALLoggerThread == 1
SPWorkers == 1..SPNumThreads
SPMainThread == 0
SPVariants == {"practice", "c_vs_cpp"}
FunctionIds == 1..QtNumFunctions
FVWorkers == 1..FVNumThreads
FVProducers == (FVNumThreads + 1)..(FVNumThreads + FVNumProducers)
FVMainThread == 0
CTPMain == 0
SCThreads == 1..SCNumThreads
SCKeys == 1..SCNumKeys
SCPromises == 1..SCMaxCalls
DCPThreads == 1..DCPNumThreads
BBProducers == 1..BBNumProducers
BBConsumers == (BBNumProducers + 1)..(BBNumProducers + BBNumConsumers)
BBThreads == BBProducers \cup BBConsumers
Addr == 1..LFQMaxAddr
nullptr == 0

\* ----------------------------------------------------------------- state
VARIABLES
    m_isShutdown,         \* std::atomic<bool> m_isShutdown
    m_activeThreadCount,  \* std::atomic<size_t> m_activeThreadCount
    queue,                \* m_taskQueue->queue, a FIFO of task ids
    mutex,                \* m_taskQueue->mutex: <<>> when free, else its owner
    waiters,              \* workers blocked inside m_taskQueue->condition.wait
    joinable,             \* m_workerThreads[i].joinable()
    wpc,                  \* position of each worker in WorkerThreadProc/FetchTask
    cur,                  \* the task a worker fetched (0: none)
    spc,                  \* position of each submitter in SubmitTask
    stask,                \* the task a submitter is submitting (0: none)
    nextTask,             \* next fresh task id
    body,                 \* what a task's callable does: "value" or "raise"
    future,               \* shared state of the packaged_task/future pair
    cpc,                  \* position of each closer in Shutdown
    joinIdx,              \* loop index of Shutdown's join loop
    ccalls,               \* Shutdown calls started by each closer
    \* history (observation only, never read by the program's actions)
    sdReturned,           \* some Shutdown call has returned
    lateShutdowns,        \* Shutdown calls started after some call returned
    afterSd,              \* tasks whose SubmitTask started after Shutdown returned
    threw,                \* tasks whose SubmitTask threw std::runtime_error
    returned,             \* tasks whose future was returned to the caller
    enqFlag,              \* "no" | "before" | "after": flag value at insertion
    fetchCount,           \* FetchTask calls that removed the task
    execCount,            \* invocations of the task's callable
    resolveCount,         \* writes of a result into the task's future
    order,                \* insertion, fetch and execution order (see OrderStart)
    joinCount             \* join() calls made on each worker thread

VARIABLES
    threadNum,            \* the constructor's argument (m_workerThreads.size())
    ctor                  \* how the constructor ended: "ok" | "invalid_argument"

ctorVars == << threadNum, ctor >>

\* ------------------------------------------------- state of the TaskPool
VARIABLES
    tpThreadNum,          \* TaskPool's constructor argument threadNum
    stop,                 \* bool stop
    tasks,                \* std::priority_queue<Task> tasks: the pending task ids
    mtx,                  \* std::mutex mtx: <<>> when free, else its owner
    cvWaiters,            \* workers blocked inside cv.wait
    tpwpc,                \* position of each worker in its lambda
    tpcur,                \* the task a worker popped (0: none)
    tppc,                 \* position of each producer in enqueue
    tptask,               \* the task a producer is enqueueing (0: none)
    tpNext,               \* next fresh task id
    priority,             \* Task::priority of each task (0: not created)
    tpFuture,             \* state of the future returned for each task
    dpc,                  \* position of the destroying thread in ~TaskPool
    dJoinIdx,             \* index of ~TaskPool's join loop
    \* history (observation only)
    tpEnqueued,           \* tasks in the order they were put in the queue
    tpDequeued,           \* tasks in the order workers popped them
    tpCompleted,          \* tasks in the order their func() finished
    tpOwner,              \* the producer that enqueued each task (0: none)
    tpCalledStopped,      \* tasks whose enqueue call started with stop = true
    tpReturned            \* tasks whose enqueue call has returned

taskPoolVars == << tpThreadNum, stop, tasks, mtx, cvWaiters, tpwpc, tpcur, tppc,
                   tptask, tpNext, priority, tpFuture, dpc, dJoinIdx, tpEnqueued,
                   tpDequeued, tpCompleted, tpOwner, tpCalledStopped, tpReturned >>

\* LockFreeQueue<int> (Part 3): the atomics head, tail and size, the heap of
\* nodes, each thread's position and locals inside enqueue or dequeue, and
\* the history of the calls that returned.
VARIABLES head, tail, size, heap, lfpc, value, newNode, oldTail, tailNext,
          oldHead, headNext, result, opCount, enqueuedOk, enqueuedFull,
          dequeuedOk, aborted

lfqVars == << head, tail, size, heap, lfpc, value, newNode, oldTail, tailNext,
              oldHead, headNext, result, opCount, enqueuedOk, enqueuedFull,
              dequeuedOk, aborted >>

\* BoundedBuffer (Part 4): the queue, its mutex and two condition variables,
\* each thread's position inside enqueue or dequeue, and the history of what
\* a blocked call saw.
VARIABLES buffer, bbmtx, not_full, not_empty, bbpc, bbmsg, bbNext, bbBlocked,
          bbSeen, bbPushes, bbPops

bbVars == << buffer, bbmtx, not_full, not_empty, bbpc, bbmsg, bbNext, bbBlocked,
             bbSeen, bbPushes, bbPops >>

\* DatabaseConnectionPool (Part 5): the idle queue, its mutex and condition
\* variable, each client thread's position, the connection it holds and
\* whether its 500 ms wait has expired.
VARIABLES connections, dcpmtx, dcpcv, dcppc, dcpHeld, dcpExpired, dcpCalls

dcpVars == << connections, dcpmtx, dcpcv, dcppc, dcpHeld, dcpExpired, dcpCalls >>

\* SafeCache (Part 6): the shared_mutex (writer and readers), the cache and
\* pending maps, the promises, each thread's position inside get, and the
\* history of computations and returned values.
VARIABLES scWriter, scReaders, cache, pending, promises, scpc, sckey, scfut,
          scres, scCalls, computeCount, scReturned

cacheVars == << scWriter, scReaders, cache, pending, promises, scpc, sckey, scfut,
                scres, scCalls, computeCount, scReturned >>

\* C ThreadPool (Part 7): the fields of struct ThreadPool, the condition
\* variable's waiters, each worker's position and task, the main thread's
\* position, and the history of added and executed tasks.
VARIABLES ctpShutdown, task_queue, task_count, ctpLock, ctpCond, ctpwpc, ctpcur,
          ctpmain, ctpJoin, ctpAdded, ctpExecuted

ctpVars == << ctpShutdown, task_queue, task_count, ctpLock, ctpCond, ctpwpc,
              ctpcur, ctpmain, ctpJoin, ctpAdded, ctpExecuted >>

\* follow_video thread_pool (Part 8): pool->quit, the task queue (the chain
\* from queue->head), queue->block, the queue mutex and condition variable,
\* each worker's and producer's position, the main thread's position, and
\* the history of posted and executed tasks.
VARIABLES quit, fvQueue, block, fvMutex, fvCond, fvwpc, fvppc, fvtask, fvNextTask,
          fvmain, fvPosted, fvExecuted

fvVars == << quit, fvQueue, block, fvMutex, fvCond, fvwpc, fvppc, fvtask,
             fvNextTask, fvmain, fvPosted, fvExecuted >>

\* FunctionalMutualExclusionHandle (Part 9): the three TestFunction objects'
\* m_isOpen, the handle's two containers, the pending QTimer::singleShot
\* callbacks, the number of FunctionOpen calls, the last call, whether every
\* call was made with no callback pending, whether a check-and-close callback
\* has closed a function, and the number of (un)registrations.
VARIABLES m_isOpen, m_registerFunctionMap, m_mutualExclusionMap, qtTimers,
          qtCalls, qtLast, qtQuiet, qtClosed, qtRegOps

qtVars == << m_isOpen, m_registerFunctionMap, m_mutualExclusionMap, qtTimers,
             qtCalls, qtLast, qtQuiet, qtClosed, qtRegOps >>

\* ThreadPool of practice/thrdPool.cpp and c_vs_cpp/cpp/main.cpp (Part 10):
\* which of the two files, the stop flag, the task queue, the queue mutex
\* and the waiters of the condition variable, each worker's position and
\* task, the main thread's position and join index, and the history: tasks
\* enqueued, tasks executed, and the queue length when stop was set.
VARIABLES spVariant, spStop, spTasks, queue_mutex, condition, spwpc, spcur,
          spmain, spJoin, spEnqueued, spExecuted, spAtStop

spVars == << spVariant, spStop, spTasks, queue_mutex, condition, spwpc, spcur,
             spmain, spJoin, spEnqueued, spExecuted, spAtStop >>

\* AsyncLogger (Part 11): the message queue, its mutex and the waiters of the
\* condition variable, the two atomic flags, the logger thread's buffer and
\* position, the lines of the log file, the threads inside a write to the
\* file and those whose write overlapped another one, the main thread's
\* position and message, and the history of accepted messages.
VARIABLES logQueue, almtx, alcv, stopLogging, isSyncMode, alBuffer, logFile,
          alpc, alExpired, alInWrite, alRaced, almain, almsg, alNext,
          alFlushes, alAccepted

alVars == << logQueue, almtx, alcv, stopLogging, isSyncMode, alBuffer, logFile,
             alpc, alExpired, alInWrite, alRaced, almain, almsg, alNext,
             alFlushes, alAccepted >>

\* AtomicReadWriteLock (Part 12): the two atomics, and each thread's position
\* and its local oldReaders.
VARIABLES readers, writer, rwpc, oldReaders

rwVars == << readers, writer, rwpc, oldReaders >>

\* ThreadSafeCircularBuffer (Part 13): the slots and the two atomic indices,
\* the writer and reader threads, each thread's position and locals, the
\* next value to write, and the history of the values whose write returned
\* true and of the values returned by a read that returned true.
VARIABLES cbBuffer, readIndex, writeIndex, cbWriters, cbReaders, cbwpc,
          currentWriteIndex, cbValue, cbrpc, currentReadIndex, cbResult,
          cbNextValue, cbWritten, cbReadOut

cbVars == << cbBuffer, readIndex, writeIndex, cbWriters, cbReaders, cbwpc,
             currentWriteIndex, cbValue, cbrpc, currentReadIndex, cbResult,
             cbNextValue, cbWritten, cbReadOut >>

\* Singleton (Part 14): the static pointer and mutex, each thread's position
\* in getInstance and whether it has seen the pointer set, the number of
\* constructor runs and the pointers returned so far.
VARIABLES instance, sgMutex, sgpc, sgSeen, constructed, sgReturned

sgVars == << instance, sgMutex, sgpc, sgSeen, constructed, sgReturned >>

laterVars == << bbVars, dcpVars, cacheVars, ctpVars, fvVars, qtVars, spVars,
    alVars, rwVars, cbVars, sgVars >>

vars == << m_isShutdown, m_activeThreadCount, queue, mutex, waiters, joinable,
           wpc, cur, spc, stask, nextTask, body, future, cpc, joinIdx, ccalls,
           sdReturned, lateShutdowns, afterSd, threw, returned, enqFlag,
           fetchCount, execCount, resolveCount, joinCount, order, ctorVars,
           taskPoolVars, lfqVars, laterVars >>

poolVars == << m_isShutdown, m_activeThreadCount, queue, mutex, waiters,
               joinable, wpc, cur >>
submitVars == << spc, stask, nextTask, body >>
closeVars == << cpc, joinIdx, ccalls >>
histVars == << sdReturned, lateShutdowns, afterSd, threw, returned, enqFlag,
               fetchCount, execCount, resolveCount, joinCount, order >>

Free == << >>
WorkerId(w) == << "worker", w >>
SubmitterId(s) == << "submitter", s >>

Pending == [state |-> "pending", src |-> 0]

InQueue(t) == \E i \in 1..Len(queue) : queue[i] = t

\* The BoundedBuffer variables while another part of the model runs.
BBIdle ==
    /\ buffer = << >>
    /\ bbmtx = 0
    /\ not_full = {}
    /\ not_empty = {}
    /\ bbpc = [t \in BBThreads |-> "none"]
    /\ bbmsg = [t \in BBThreads |-> 0]
    /\ bbNext = 1
    /\ bbBlocked = [t \in BBThreads |-> FALSE]
    /\ bbSeen = [t \in BBThreads |-> 0]
    /\ bbPushes = 0
    /\ bbPops = 0

\* The DatabaseConnectionPool variables while another part of the model runs.
DCPIdle ==
    /\ connections = << >>
    /\ dcpmtx = 0
    /\ dcpcv = {}
    /\ dcppc = [t \in DCPThreads |-> "none"]
    /\ dcpHeld = [t \in DCPThreads |-> 0]
    /\ dcpExpired = [t \in DCPThreads |-> FALSE]
    /\ dcpCalls = 0

\* The SafeCache variables while another part of the model runs.
SCIdle ==
    /\ scWriter = 0
    /\ scReaders = {}
    /\ cache = [k \in SCKeys |-> << >>]
    /\ pending = [k \in SCKeys |-> 0]
    /\ promises = [p \in SCPromises |-> << >>]
    /\ scpc = [t \in SCThreads |-> "none"]
    /\ sckey = [t \in SCThreads |-> 0]
    /\ scfut = [t \in SCThreads |-> 0]
    /\ scres = [t \in SCThreads |-> << >>]
    /\ scCalls = 0
    /\ computeCount = [k \in SCKeys |-> 0]
    /\ scReturned = [k \in SCKeys |-> {}]

\* The C ThreadPool variables while another part of the model runs.
CTPIdle ==
    /\ ctpShutdown = 0
    /\ task_queue = << >>
    /\ task_count = 0
    /\ ctpLock = -1
    /\ ctpCond = {}
    /\ ctpwpc = [w \in CTPWorkers |-> "none"]
    /\ ctpcur = [w \in CTPWorkers |-> 0]
    /\ ctpmain = "none"
    /\ ctpJoin = 0
    /\ ctpAdded = 0
    /\ ctpExecuted = << >>

\* The follow_video thread_pool variables while another part of the model runs.
FVIdle ==
    /\ quit = 0
    /\ fvQueue = << >>
    /\ block = 1
    /\ fvMutex = -1
    /\ fvCond = {}
    /\ fvwpc = [w \in FVWorkers |-> "none"]
    /\ fvppc = [p \in FVProducers |-> "none"]
    /\ fvtask = [p \in FVProducers |-> 0]
    /\ fvNextTask = 1
    /\ fvmain = "none"
    /\ fvPosted = {}
    /\ fvExecuted = << >>

\* The FunctionalMutualExclusionHandle variables while another part of the
\* model runs: nothing registered, nothing open, nothing scheduled.
QtIdle ==
    /\ m_isOpen = [f \in FunctionIds |-> FALSE]
    /\ m_registerFunctionMap = {}
    /\ m_mutualExclusionMap = {}
    /\ qtTimers = {}
    /\ qtCalls = 0
    /\ qtLast = [fn |-> 0, open |-> FALSE]
    /\ qtQuiet = TRUE
    /\ qtClosed = FALSE
    /\ qtRegOps = 0

\* The variables of Part 10 while another part of the model runs.
SPIdle ==
    /\ spVariant = "none"
    /\ spStop = FALSE
    /\ spTasks = << >>
    /\ queue_mutex = -1
    /\ condition = {}
    /\ spwpc = [w \in SPWorkers |-> "none"]
    /\ spcur = [w \in SPWorkers |-> 0]
    /\ spmain = "none"
    /\ spJoin = 0
    /\ spEnqueued = 0
    /\ spExecuted = << >>
    /\ spAtStop = 0

\* The AsyncLogger variables while another part of the model runs.
ALIdle ==
    /\ logQueue = << >>
    /\ almtx = -1
    /\ alcv = {}
    /\ stopLogging = FALSE
    /\ isSyncMode = FALSE
    /\ alBuffer = << >>
    /\ logFile = << >>
    /\ alpc = "none"
    /\ alExpired = FALSE
    /\ alInWrite = {}
    /\ alRaced = {}
    /\ almain = "none"
    /\ almsg = 0
    /\ alNext = 1
    /\ alFlushes = 0
    /\ alAccepted = {}

\* The AtomicReadWriteLock variables while another part of the model runs.
RWIdle ==
    /\ readers = 0
    /\ writer = FALSE
    /\ rwpc = << >>
    /\ oldReaders = << >>

\* The ThreadSafeCircularBuffer variables while another part of the model
\* runs.
CBIdle ==
    /\ cbBuffer = << >>
    /\ readIndex = 0
    /\ writeIndex = 0
    /\ cbWriters = {}
    /\ cbReaders = {}
    /\ cbwpc = << >>
    /\ currentWriteIndex = << >>
    /\ cbValue = << >>
    /\ cbrpc = << >>
    /\ currentReadIndex = << >>
    /\ cbResult = << >>
    /\ cbNextValue = 1
    /\ cbWritten = << >>
    /\ cbReadOut = << >>

\* The Singleton variables while another part of the model runs.
SGIdle ==
    /\ instance = nullptr
    /\ sgMutex = 0
    /\ sgpc = << >>
    /\ sgSeen = << >>
    /\ constructed = 0
    /\ sgReturned = {}

LaterIdle == BBIdle /\ DCPIdle /\ SCIdle /\ CTPIdle /\ FVIdle /\ QtIdle /\
    SPIdle /\ ALIdle /\ RWIdle /\ CBIdle /\ SGIdle

\* The LockFreeQueue variables while another part of the model runs: no queue.
LFQIdle ==
    /\ head = nullptr
    /\ tail = nullptr
    /\ size = 0
    /\ heap = [a \in Addr |-> [live |-> FALSE, data |-> 0, next |-> nullptr]]
    /\ lfpc = [t \in LFQThreads |-> "none"]
    /\ value = [t \in LFQThreads |-> 0]
    /\ newNode = [t \in LFQThreads |-> nullptr]
    /\ oldTail = [t \in LFQThreads |-> nullptr]
    /\ tailNext = [t \in LFQThreads |-> nullptr]
    /\ oldHead = [t \in LFQThreads |-> nullptr]
    /\ headNext = [t \in LFQThreads |-> nullptr]
    /\ result = [t \in LFQThreads |-> 0]
    /\ opCount = 0
    /\ enqueuedOk = << >>
    /\ enqueuedFull = << >>
    /\ dequeuedOk = << >>
    /\ aborted = FALSE

\* The TaskPool variables while another part of the model runs: no pool.
TaskPoolIdle ==
    /\ tpThreadNum = 0
    /\ stop = FALSE
    /\ tasks = {}
    /\ mtx = << >>
    /\ cvWaiters = {}
    /\ tpwpc = [w \in TPWorkers |-> "none"]
    /\ tpcur = [w \in TPWorkers |-> 0]
    /\ tppc = [p \in TPProducers |-> "idle"]
    /\ tptask = [p \in TPProducers |-> 0]
    /\ tpNext = 1
    /\ priority = [t \in TPTasks |-> 0]
    /\ tpFuture = [t \in TPTasks |-> "none"]
    /\ dpc = "done"
    /\ dJoinIdx = 0
    /\ tpEnqueued = << >>
    /\ tpDequeued = << >>
    /\ tpCompleted = << >>
    /\ tpOwner = [t \in TPTasks |-> 0]
    /\ tpCalledStopped = {}
    /\ tpReturned = {}

\* Mutant of CtorOutcome: the constructor without the zero test.
CtorOutcome_NoTest(n) == "ok"

\* ThreadPool::ThreadPool, lines 21-23: threadNum == 0 throws
\* std::invalid_argument.
CtorOutcome(n) == IF n = 0 THEN "invalid_argument" ELSE "ok"

\* ThreadPool::ThreadPool, lines 26-29: the loop creates the threads
\* 1..threadNum; it is not reached when the constructor has thrown.
CtorThreads(n) == IF CtorOutcome(n) = "ok" THEN 1..n ELSE {}

\* ThreadPool::ThreadPool(n), lines 18-34: the state after the constructor:
\* the queue is empty, the flag is false, the counter is 0 and the created
\* worker threads are each before their first statement ("none": no thread).
ThreadPoolFields(n) ==
    /\ threadNum = n
    /\ ctor = CtorOutcome(n)
    /\ m_isShutdown = FALSE
    /\ m_activeThreadCount = 0
    /\ queue = << >>
    /\ mutex = Free
    /\ waiters = {}
    /\ joinable = [w \in Workers |-> w \in CtorThreads(n)]
    /\ wpc = [w \in Workers |-> IF w \in CtorThreads(n) THEN "start" ELSE "none"]
    /\ cur = [w \in Workers |-> 0]
    /\ spc = [s \in Submitters |-> "idle"]
    /\ stask = [s \in Submitters |-> 0]
    /\ nextTask = 1
    /\ body = [t \in Tasks |-> "none"]
    /\ future = [t \in Tasks |-> Pending]
    /\ cpc = [c \in Closers |-> "idle"]
    /\ joinIdx = [c \in Closers |-> 0]
    /\ ccalls = [c \in Closers |-> 0]
    /\ sdReturned = FALSE
    /\ lateShutdowns = 0
    /\ afterSd = {}
    /\ threw = {}
    /\ returned = {}
    /\ enqFlag = [t \in Tasks |-> "no"]
    /\ fetchCount = [t \in Tasks |-> 0]
    /\ execCount = [t \in Tasks |-> 0]
    /\ resolveCount = [t \in Tasks |-> 0]
    /\ joinCount = [w \in Workers |-> 0]

\* The order history when it is not kept: every specification but
\* ThreadPoolOrderSpec starts with it, and it then never changes.
OrderOff ==
    [on |-> FALSE, enq |-> << >>, fetch |-> << >>, exec |-> << >>,
     owner |-> [t \in Tasks |-> 0]]

\* The empty order history of ThreadPoolOrderSpec: enq lists the tasks in the
\* order of their queue.emplace, fetch in the order FetchTask moved them out
\* of the queue, exec in the order their invocation by a worker completed;
\* owner is the submitter whose SubmitTask call created the task.  exec and
\* owner are kept for the pool of a single worker only.
OrderStart == [OrderOff EXCEPT !.on = TRUE]

ThreadPoolConstructed(n) == ThreadPoolFields(n) /\ order = OrderOff

\* The pool of the claims about a running pool: threadNum = NumWorkers > 0.
ThreadPoolInit ==
    ThreadPoolConstructed(NumWorkers) /\ TaskPoolIdle /\ LFQIdle /\ LaterIdle

\* Any construction: threadNum from 0 up to NumWorkers.
ThreadPoolCtorInit ==
    /\ \E n \in 0..NumWorkers : ThreadPoolConstructed(n)
    /\ TaskPoolIdle /\ LFQIdle /\ LaterIdle

\* ------------------------------------------------------- worker threads

\* ThreadPool::WorkerThreadProc, line 54: the thread starts and counts itself.
WorkerStart(w) ==
    /\ wpc[w] = "start"
    /\ m_activeThreadCount' = m_activeThreadCount + 1
    /\ wpc' = [wpc EXCEPT ![w] = "lock"]
    /\ UNCHANGED << m_isShutdown, queue, mutex, waiters, joinable, cur >>
    /\ UNCHANGED << submitVars, future, closeVars, histVars >>
    /\ UNCHANGED << ctorVars, taskPoolVars, lfqVars, laterVars >>

\* ThreadPool::FetchTask, line 79: std::unique_lock<std::mutex> lock(mutex).
FetchLock(w) ==
    /\ wpc[w] = "lock"
    /\ mutex = Free
    /\ mutex' = WorkerId(w)
    /\ wpc' = [wpc EXCEPT ![w] = "pred"]
    /\ UNCHANGED << m_isShutdown, m_activeThreadCount, queue, waiters, joinable, cur >>
    /\ UNCHANGED << submitVars, future, closeVars, histVars >>
    /\ UNCHANGED << ctorVars, taskPoolVars, lfqVars, laterVars >>

\* The wait predicate of FetchTask, line 83.
WaitPredicate == queue # << >> \/ m_isShutdown

\* ThreadPool::FetchTask, lines 82-84: condition.wait(lock, pred) is
\* `while (!pred()) wait(lock);` - this step evaluates pred with the lock held.
FetchPred(w) ==
    /\ wpc[w] = "pred"
    /\ wpc' = [wpc EXCEPT ![w] = IF WaitPredicate THEN "decide" ELSE "block"]
    /\ UNCHANGED << m_isShutdown, m_activeThreadCount, queue, mutex, waiters, joinable, cur >>
    /\ UNCHANGED << submitVars, future, closeVars, histVars >>
    /\ UNCHANGED << ctorVars, taskPoolVars, lfqVars, laterVars >>

\* ThreadPool::FetchTask, line 82: the predicate was false, wait(lock)
\* atomically releases the mutex and blocks the thread on the condition.
FetchWait(w) ==
    /\ wpc[w] = "block"
    /\ mutex' = Free
    /\ waiters' = waiters \cup {w}
    /\ wpc' = [wpc EXCEPT ![w] = "waiting"]
    /\ UNCHANGED << m_isShutdown, m_activeThreadCount, queue, joinable, cur >>
    /\ UNCHANGED << submitVars, future, closeVars, histVars >>
    /\ UNCHANGED << ctorVars, taskPoolVars, lfqVars, laterVars >>

\* ThreadPool::FetchTask, line 82: a woken thread re-acquires the mutex
\* before wait(lock) returns; the predicate is then evaluated again.
FetchWake(w) ==
    /\ wpc[w] = "waiting"
    /\ w \notin waiters
    /\ mutex = Free
    /\ mutex' = WorkerId(w)
    /\ wpc' = [wpc EXCEPT ![w] = "pred"]
    /\ UNCHANGED << m_isShutdown, m_activeThreadCount, queue, waiters, joinable, cur >>
    /\ UNCHANGED << submitVars, future, closeVars, histVars >>
    /\ UNCHANGED << ctorVars, taskPoolVars, lfqVars, laterVars >>

\* std::condition_variable::wait may return without a notification.
SpuriousWakeup(w) ==
    /\ w \in waiters
    /\ waiters' = waiters \ {w}
    /\ UNCHANGED << m_isShutdown, m_activeThreadCount, queue, mutex, joinable, wpc, cur >>
    /\ UNCHANGED << submitVars, future, closeVars, histVars >>
    /\ UNCHANGED << ctorVars, taskPoolVars, lfqVars, laterVars >>

\* Mutant of PopFront: the front task is read but not popped.
PopFront_NoPop(q) == q

\* ThreadPool::FetchTask, line 93: queue.pop().
PopFront(q) == Tail(q)

\* Mutant of FetchReturnsNull: shutdown alone ends the worker, pending
\* tasks are dropped.
FetchReturnsNull_DropPending(flag, q) == flag

\* ThreadPool::FetchTask, lines 87-89: the test for returning nullptr.
FetchReturnsNull(flag, q) == flag /\ q = << >>

\* ThreadPool::FetchTask, lines 87-95: after the wait, return nullptr when
\* shut down with an empty queue, else move out the front task and pop it;
\* the lock is released on return.
FetchDecide(w) ==
    /\ wpc[w] = "decide"
    /\ IF FetchReturnsNull(m_isShutdown, queue)
         THEN /\ wpc' = [wpc EXCEPT ![w] = "exit"]
              /\ UNCHANGED << queue, cur, fetchCount >>
         ELSE /\ cur' = [cur EXCEPT ![w] = Head(queue)]
              /\ queue' = PopFront(queue)
              /\ fetchCount' = [fetchCount EXCEPT ![Head(queue)] = @ + 1]
              /\ wpc' = [wpc EXCEPT ![w] = "run"]
    /\ order' = IF order.on /\ ~FetchReturnsNull(m_isShutdown, queue)
                  THEN [order EXCEPT !.fetch = Append(@, Head(queue))]
                  ELSE order
    /\ mutex' = Free
    /\ UNCHANGED << m_isShutdown, m_activeThreadCount, waiters, joinable >>
    /\ UNCHANGED << submitVars, future, closeVars >>
    /\ UNCHANGED << sdReturned, lateShutdowns, afterSd, threw, returned, enqFlag,
                    execCount, resolveCount, joinCount >>
    /\ UNCHANGED << ctorVars, taskPoolVars, lfqVars, laterVars >>

\* Mutant of PackagedTaskResult: an exception of the callable is swallowed
\* and the future is given a value.
PackagedTaskResult_Swallow(t) == [state |-> "value", src |-> t]

\* ThreadPool::SubmitTask, lines 122-130: the callable is wrapped in a
\* std::packaged_task owned by the queued lambda; invoking it stores the
\* callable's own value, or the exception it raised, in its own future.
PackagedTaskResult(t) ==
    [state |-> IF body[t] = "raise" THEN "error" ELSE "value", src |-> t]

\* Mutant of LoopAfterTask: a task that raised breaks the worker loop.
LoopAfterTask_BreakOnRaise(outcome) == IF outcome = "raise" THEN "exit" ELSE "lock"

\* ThreadPool::WorkerThreadProc, lines 56-73: whatever the task did, the
\* try/catch ends inside the while(true) loop, which calls FetchTask again.
LoopAfterTask(outcome) == "lock"

\* ThreadPool::WorkerThreadProc, lines 60-72: task() runs the fetched task.
\* A packaged_task that is already satisfied throws std::future_error, which
\* the worker's catch swallows; the future is then left as it was.
WorkerRunTask(w) ==
    /\ wpc[w] = "run"
    /\ execCount' = [execCount EXCEPT ![cur[w]] = @ + 1]
    /\ IF future[cur[w]].state = "pending"
         THEN /\ future' = [future EXCEPT ![cur[w]] = PackagedTaskResult(cur[w])]
              /\ resolveCount' = [resolveCount EXCEPT ![cur[w]] = @ + 1]
         ELSE UNCHANGED << future, resolveCount >>
    /\ wpc' = [wpc EXCEPT ![w] = LoopAfterTask(body[cur[w]])]
    /\ order' = IF order.on /\ threadNum = 1
                  THEN [order EXCEPT !.exec = Append(@, cur[w])]
                  ELSE order
    /\ cur' = [cur EXCEPT ![w] = 0]
    /\ UNCHANGED << m_isShutdown, m_activeThreadCount, queue, mutex, waiters, joinable >>
    /\ UNCHANGED << submitVars, closeVars >>
    /\ UNCHANGED << sdReturned, lateShutdowns, afterSd, threw, returned, enqFlag,
                    fetchCount, joinCount >>
    /\ UNCHANGED << ctorVars, taskPoolVars, lfqVars, laterVars >>

\* ThreadPool::WorkerThreadProc, lines 58 and 75: FetchTask returned an empty
\* function, the loop breaks, the thread uncounts itself and ends.
WorkerExit(w) ==
    /\ wpc[w] = "exit"
    /\ m_activeThreadCount' = m_activeThreadCount - 1
    /\ wpc' = [wpc EXCEPT ![w] = "exited"]
    /\ UNCHANGED << m_isShutdown, queue, mutex, waiters, joinable, cur >>
    /\ UNCHANGED << submitVars, future, closeVars, histVars >>
    /\ UNCHANGED << ctorVars, taskPoolVars, lfqVars, laterVars >>

WorkerThreadProc(w) ==
    \/ WorkerStart(w)
    \/ FetchLock(w)
    \/ FetchPred(w)
    \/ FetchWait(w)
    \/ FetchWake(w)
    \/ FetchDecide(w)
    \/ WorkerRunTask(w)
    \/ WorkerExit(w)

\* ------------------------------------------------------ ThreadPool::SubmitTask

\* Mutant of SubmitRejects: SubmitTask without the shutdown test.
SubmitRejects_NoTest(flag) == FALSE

\* ThreadPool::SubmitTask, line 117: the test that decides whether to throw.
SubmitRejects(flag) == flag

\* ThreadPool::SubmitTask, lines 117-127: a call starts by loading the flag;
\* it throws std::runtime_error when the flag is set, otherwise it creates the
\* packaged_task and its future.  The callable either returns or raises.
SubmitCheck(s) ==
    /\ ctor = "ok"
    /\ spc[s] = "idle"
    /\ nextTask <= MaxTasks
    /\ \E b \in {"value", "raise"} : body' = [body EXCEPT ![nextTask] = b]
    /\ nextTask' = nextTask + 1
    /\ afterSd' = IF sdReturned THEN afterSd \cup {nextTask} ELSE afterSd
    /\ IF SubmitRejects(m_isShutdown)
         THEN /\ threw' = threw \cup {nextTask}
              /\ UNCHANGED << spc, stask >>
         ELSE /\ spc' = [spc EXCEPT ![s] = "lock"]
              /\ stask' = [stask EXCEPT ![s] = nextTask]
              /\ UNCHANGED threw
    /\ order' = IF order.on /\ threadNum = 1 /\ ~SubmitRejects(m_isShutdown)
                  THEN [order EXCEPT !.owner[nextTask] = s]
                  ELSE order
    /\ UNCHANGED << poolVars, future, closeVars >>
    /\ UNCHANGED << sdReturned, lateShutdowns, returned, enqFlag, fetchCount,
                    execCount, resolveCount, joinCount >>
    /\ UNCHANGED << ctorVars, taskPoolVars, lfqVars, laterVars >>

\* ThreadPool::SubmitTask, line 129: std::unique_lock<std::mutex> lock(mutex).
SubmitLock(s) ==
    /\ spc[s] = "lock"
    /\ mutex = Free
    /\ mutex' = SubmitterId(s)
    /\ spc' = [spc EXCEPT ![s] = "emplace"]
    /\ UNCHANGED << m_isShutdown, m_activeThreadCount, queue, waiters, joinable, wpc, cur >>
    /\ UNCHANGED << stask, nextTask, body, future, closeVars, histVars >>
    /\ UNCHANGED << ctorVars, taskPoolVars, lfqVars, laterVars >>

\* Mutant of QueueEmplace: the task is put at the front of the queue.
QueueEmplace_Front(q, t) == << t >> \o q

\* ThreadPool::SubmitTask, line 130, on std::queue (thread_pool.h line 100):
\* queue.emplace puts the task at the back.
QueueEmplace(q, t) == Append(q, t)

\* ThreadPool::SubmitTask, lines 130-131: queue.emplace(...) and the end of
\* the lock's scope.
SubmitEmplace(s) ==
    /\ spc[s] = "emplace"
    /\ queue' = QueueEmplace(queue, stask[s])
    /\ order' = IF order.on THEN [order EXCEPT !.enq = Append(@, stask[s])] ELSE order
    /\ mutex' = Free
    /\ enqFlag' = [enqFlag EXCEPT ![stask[s]] = IF m_isShutdown THEN "after" ELSE "before"]
    /\ spc' = [spc EXCEPT ![s] = "notify"]
    /\ UNCHANGED << m_isShutdown, m_activeThreadCount, waiters, joinable, wpc, cur >>
    /\ UNCHANGED << stask, nextTask, body, future, closeVars >>
    /\ UNCHANGED << sdReturned, lateShutdowns, afterSd, threw, returned,
                    fetchCount, execCount, resolveCount, joinCount >>
    /\ UNCHANGED << ctorVars, taskPoolVars, lfqVars, laterVars >>

\* ThreadPool::SubmitTask, lines 134-135: condition.notify_one() wakes one
\* blocked worker, if there is one; the future is returned to the caller.
SubmitNotify(s) ==
    /\ spc[s] = "notify"
    /\ IF waiters = {}
         THEN UNCHANGED waiters
         ELSE \E w \in waiters : waiters' = waiters \ {w}
    /\ returned' = returned \cup {stask[s]}
    /\ spc' = [spc EXCEPT ![s] = "idle"]
    /\ stask' = [stask EXCEPT ![s] = 0]
    /\ UNCHANGED << m_isShutdown, m_activeThreadCount, queue, mutex, joinable, wpc, cur >>
    /\ UNCHANGED << nextTask, body, future, closeVars >>
    /\ UNCHANGED << sdReturned, lateShutdowns, afterSd, threw, enqFlag,
                    fetchCount, execCount, resolveCount, joinCount >>
    /\ UNCHANGED order
    /\ UNCHANGED << ctorVars, taskPoolVars, lfqVars, laterVars >>

SubmitTask(s) ==
    \/ SubmitCheck(s)
    \/ SubmitLock(s)
    \/ SubmitEmplace(s)
    \/ SubmitNotify(s)

\* -------------------------------------------------------- ThreadPool::Shutdown

\* Mutant of CompareExchangeStrong: a plain exchange, every call enters
\* the shutdown branch.
CompareExchangeStrong_Always(flag, expected) == TRUE

\* std::atomic<bool>::compare_exchange_strong(expected, true), line 40:
\* succeeds exactly when the flag holds the expected value.
CompareExchangeStrong(flag, expected) == flag = expected

\* ThreadPool::Shutdown, lines 39-40 and 50-51: a call starts with the
\* compare-exchange; the call that finds the flag already set returns at once.
ShutdownCAS(c) ==
    /\ ctor = "ok"
    /\ cpc[c] = "idle"
    /\ ccalls[c] < MaxShutdownCalls
    /\ ccalls' = [ccalls EXCEPT ![c] = @ + 1]
    /\ lateShutdowns' = IF sdReturned THEN lateShutdowns + 1 ELSE lateShutdowns
    /\ IF CompareExchangeStrong(m_isShutdown, FALSE)
         THEN /\ m_isShutdown' = TRUE
              /\ cpc' = [cpc EXCEPT ![c] = "notify"]
              /\ UNCHANGED sdReturned
         ELSE /\ sdReturned' = TRUE
              /\ UNCHANGED << m_isShutdown, cpc >>
    /\ UNCHANGED << m_activeThreadCount, queue, mutex, waiters, joinable, wpc, cur >>
    /\ UNCHANGED << submitVars, future, joinIdx >>
    /\ UNCHANGED << afterSd, threw, returned, enqFlag, fetchCount, execCount,
                    resolveCount, joinCount >>
    /\ UNCHANGED order
    /\ UNCHANGED << ctorVars, taskPoolVars, lfqVars, laterVars >>

\* ThreadPool::Shutdown, line 42: condition.notify_all() wakes every worker
\* that is blocked on the condition at this moment.
ShutdownNotifyAll(c) ==
    /\ cpc[c] = "notify"
    /\ waiters' = {}
    /\ cpc' = [cpc EXCEPT ![c] = "join"]
    /\ joinIdx' = [joinIdx EXCEPT ![c] = 1]
    /\ UNCHANGED << m_isShutdown, m_activeThreadCount, queue, mutex, joinable, wpc, cur >>
    /\ UNCHANGED << submitVars, future, ccalls, histVars >>
    /\ UNCHANGED << ctorVars, taskPoolVars, lfqVars, laterVars >>

\* ThreadPool::Shutdown, lines 45-49: one iteration of the join loop.  join()
\* blocks until the thread has ended and leaves it not joinable; the call
\* returns when the loop is over.
ShutdownJoin(c) ==
    /\ cpc[c] = "join"
    /\ IF joinable[joinIdx[c]]
         THEN /\ wpc[joinIdx[c]] = "exited"
              /\ joinable' = [joinable EXCEPT ![joinIdx[c]] = FALSE]
              /\ joinCount' = [joinCount EXCEPT ![joinIdx[c]] = @ + 1]
         ELSE UNCHANGED << joinable, joinCount >>
    /\ IF joinIdx[c] = threadNum
         THEN /\ cpc' = [cpc EXCEPT ![c] = "idle"]
              /\ joinIdx' = [joinIdx EXCEPT ![c] = 0]
              /\ sdReturned' = TRUE
         ELSE /\ joinIdx' = [joinIdx EXCEPT ![c] = @ + 1]
              /\ UNCHANGED << cpc, sdReturned >>
    /\ UNCHANGED << m_isShutdown, m_activeThreadCount, queue, mutex, waiters, wpc, cur >>
    /\ UNCHANGED << submitVars, future, ccalls >>
    /\ UNCHANGED << lateShutdowns, afterSd, threw, returned, enqFlag, fetchCount,
                    execCount, resolveCount >>
    /\ UNCHANGED order
    /\ UNCHANGED << ctorVars, taskPoolVars, lfqVars, laterVars >>

Shutdown(c) ==
    \/ ShutdownCAS(c)
    \/ ShutdownNotifyAll(c)
    \/ ShutdownJoin(c)

\* --------------------------------------------------------- specifications

ThreadPoolNext ==
    \/ \E w \in Workers : WorkerThreadProc(w)
    \/ \E w \in Workers : SpuriousWakeup(w)
    \/ \E s \in Submitters : SubmitTask(s)
    \/ \E c \in Closers : Shutdown(c)

ThreadPoolSpec == ThreadPoolInit /\ [][ThreadPoolNext]_vars

\* Fair scheduling: every thread that can take a step of the call it is in
\* eventually takes it.  Nothing obliges a client to start a new call, and
\* nothing obliges a condition variable to wake a thread spuriously.
ThreadPoolFairness ==
    /\ \A w \in Workers : WF_vars(WorkerThreadProc(w))
    /\ \A s \in Submitters : WF_vars(SubmitLock(s) \/ SubmitEmplace(s) \/ SubmitNotify(s))
    /\ \A c \in Closers : WF_vars(ShutdownNotifyAll(c) \/ ShutdownJoin(c))

ThreadPoolFairSpec == ThreadPoolSpec /\ ThreadPoolFairness

\* The pool after any construction, threadNum = 0 included.
ThreadPoolCtorSpec == ThreadPoolCtorInit /\ [][ThreadPoolNext]_vars

\* A pool of one worker or more whose order history is kept.
ThreadPoolOrderInit ==
    /\ \E n \in 1..NumWorkers : ThreadPoolFields(n)
    /\ order = OrderStart
    /\ TaskPoolIdle /\ LFQIdle /\ LaterIdle

ThreadPoolOrderSpec == ThreadPoolOrderInit /\ [][ThreadPoolNext]_vars

IsPrefix(p, q) == Len(p) <= Len(q) /\ \A i \in 1..Len(p) : p[i] = q[i]

\* The position of task t in the sequence q, 0 when it is not there.
Position(q, t) == IF \E i \in 1..Len(q) : q[i] = t
                    THEN CHOOSE i \in 1..Len(q) : q[i] = t
                    ELSE 0

\* Task t is in q, and so is u, at an earlier position.
InOrder(q, u, t) == Position(q, t) > 0 => (0 < Position(q, u) /\ Position(q, u) < Position(q, t))

\* C29: the tasks leave the queue in the order in which they were inserted
\* under the queue mutex (the fetch history is a prefix of the insertion
\* history, each task once); and in a pool of a single worker, two tasks
\* submitted by the same caller start (are fetched) and complete in the
\* order of their submission, the earlier SubmitTask call having the
\* smaller task id.
C29_FifoOrder ==
    order.on =>
      /\ IsPrefix(order.fetch, order.enq)
      /\ order.enq = order.fetch \o queue
      /\ threadNum = 1 =>
           \A u, t \in Tasks :
             (u < t /\ order.owner[u] # 0 /\ order.owner[u] = order.owner[t])
               => InOrder(order.fetch, u, t) /\ InOrder(order.exec, u, t)

\* A single worker has run to completion two tasks of the same caller, the
\* earlier submission first.
C29_Witness ==
    /\ order.on
    /\ threadNum = 1
    /\ \E u, t \in Tasks :
         /\ u < t
         /\ order.owner[u] # 0
         /\ order.owner[u] = order.owner[t]
         /\ Position(order.exec, u) > 0
         /\ Position(order.exec, t) > Position(order.exec, u)

AllWorkersExited == \A w \in Workers : wpc[w] = "exited"

\* ------------------------------------------------------------------ claims

QueueCount(t) == Cardinality({i \in 1..Len(queue) : queue[i] = t})

\* C1: a SubmitTask call that starts after a Shutdown call has returned
\* throws std::runtime_error at once (it is never left in progress), never
\* puts its task in the queue, and its callable is never fetched or run.
C1_SubmitAfterShutdownThrows ==
    \A t \in afterSd :
        /\ t \in threw
        /\ \A s \in Submitters : stask[s] # t
        /\ enqFlag[t] = "no" /\ ~InQueue(t)
        /\ fetchCount[t] = 0 /\ execCount[t] = 0
        /\ \A w \in Workers : cur[w] # t
        /\ future[t] = Pending

\* C1 witness: a SubmitTask call was made after a Shutdown call returned.
C1_Witness == \E t \in afterSd : t \in threw /\ sdReturned

\* C2 (as claimed): once m_isShutdown is true, no step inserts a task into
\* the task queue.
C2_NoInsertAfterShutdown ==
    [][m_isShutdown =>
          \A t \in Tasks :
              (\E i \in 1..Len(queue') : queue'[i] = t) => InQueue(t)]_vars

\* C3 (as claimed): whenever a Shutdown call (or the destructor) has
\* returned, every task that was put in the queue before the shutdown flag
\* was set has been executed exactly once.
C3_DrainedWhenShutdownReturns ==
    sdReturned => \A t \in Tasks : enqFlag[t] = "before" => execCount[t] = 1

\* C4 (as claimed): under fair scheduling, once the shutdown flag is set
\* every worker eventually exits and every Shutdown call eventually returns.
C4_ShutdownTerminates ==
    m_isShutdown ~> (AllWorkersExited /\ \A c \in Closers : cpc[c] = "idle")

\* C5: Shutdown is idempotent in sequence: a Shutdown call that starts
\* after some Shutdown call has returned returns in its first step (it
\* does not wait for anything) and leaves the flag, the queue, the
\* condition variable, the mutex and every worker thread as they were;
\* and no worker thread is ever joined more than once.
C5_ShutdownIdempotent ==
    /\ [][\A c \in Closers :
             (sdReturned /\ ccalls'[c] = ccalls[c] + 1) =>
                 (cpc'[c] = "idle" /\ UNCHANGED poolVars /\ UNCHANGED joinCount)]_vars
    /\ [](\A w \in Workers : joinCount[w] <= 1)

\* C5 witness: a Shutdown call was made after an earlier call had returned
\* with all workers joined.
C5_Witness ==
    /\ lateShutdowns > 0
    /\ \A w \in Workers : joinCount[w] = 1 /\ ~joinable[w]

\* C6 (as claimed): whenever any Shutdown call has returned, every worker
\* thread has finished its task and exited.
C6_ReturnImpliesAllExited == sdReturned => AllWorkersExited

\* C7: every task put in the queue is removed by exactly one FetchTask call:
\* a task is in the queue at most once, a task still in the queue has not
\* been removed, a task that has left the queue was removed by exactly one
\* FetchTask call; no task is run twice, and no task is held by two workers
\* at the same time.
C7_FetchedExactlyOnce ==
    \A t \in Tasks :
        /\ QueueCount(t) <= 1
        /\ enqFlag[t] # "no" => fetchCount[t] = (IF InQueue(t) THEN 0 ELSE 1)
        /\ enqFlag[t] = "no" => fetchCount[t] = 0
        /\ execCount[t] <= fetchCount[t]
        /\ Cardinality({w \in Workers : cur[w] = t}) <= 1
        /\ Cardinality({w \in Workers : cur[w] = t}) + execCount[t] = fetchCount[t]

\* C7 witness: two workers are running two different tasks at the same time.
C7_Witness ==
    \E w1, w2 \in Workers :
        /\ w1 # w2
        /\ wpc[w1] = "run" /\ wpc[w2] = "run"
        /\ cur[w1] # cur[w2]

\* C8: a worker that has run a task, whether its callable returned or
\* raised, goes back to FetchTask; and until the shutdown flag is set no
\* worker leaves its loop, so all NumWorkers workers stay alive.
C8_WorkerSurvivesTask ==
    /\ [][\A w \in Workers :
             (wpc[w] = "run" /\ wpc'[w] # "run") => wpc'[w] = "lock"]_vars
    /\ [](~m_isShutdown =>
             Cardinality({w \in Workers : wpc[w] \notin {"exit", "exited"}}) = NumWorkers)

\* C8 witness: a task whose callable raised has been run, the pool is not
\* shut down, and the worker is fetching again.
C8_Witness ==
    /\ ~m_isShutdown
    /\ \E t \in Tasks : body[t] = "raise" /\ execCount[t] = 1
    /\ \A w \in Workers : wpc[w] \in {"lock", "pred", "block", "waiting", "decide"}

\* C9: a resolved future holds the outcome of its own task - the error of
\* that task if its callable raised, the value of that task otherwise - and
\* once resolved it is never changed by the run of any other task.
C9_FutureIsOwnOutcome ==
    /\ [](\A t \in Tasks :
             future[t].state # "pending" =>
                 /\ future[t].src = t
                 /\ (future[t].state = "error") = (body[t] = "raise")
                 /\ (future[t].state = "value") = (body[t] = "value"))
    /\ [][\A t \in Tasks :
             future[t].state # "pending" => future'[t] = future[t]]_vars

\* C9 witness: one task failed and another task delivered its value.
C9_Witness ==
    \E t1, t2 \in Tasks :
        /\ future[t1].state = "error" /\ body[t1] = "raise"
        /\ future[t2].state = "value" /\ body[t2] = "value"

\* C10 (as claimed), in the form a finite run refutes: a future is resolved
\* only by a worker running its task, so once every worker has exited each
\* future that SubmitTask returned must already be resolved; and no future is
\* resolved more than once.
C10_EveryFutureResolved ==
    /\ \A t \in Tasks : resolveCount[t] <= 1
    /\ AllWorkersExited => \A t \in returned : future[t].state # "pending"

\* C11: construction with threadNum = 0 fails with std::invalid_argument and
\* starts no worker thread; construction with threadNum = N > 0 succeeds and
\* has started exactly the N threads 1..N; the set of worker threads never
\* changes, and until the shutdown flag is set all N of them are alive.
C11_Construction ==
    /\ threadNum = 0 =>
           /\ ctor = "invalid_argument"
           /\ \A w \in Workers : wpc[w] = "none" /\ ~joinable[w]
           /\ m_activeThreadCount = 0
    /\ threadNum > 0 =>
           /\ ctor = "ok"
           /\ {w \in Workers : wpc[w] # "none"} = 1..threadNum
           /\ ~m_isShutdown =>
                  Cardinality({w \in Workers : wpc[w] \notin {"none", "exit", "exited"}})
                      = threadNum

\* C11 witness: a pool built with threadNum = NumWorkers whose workers have
\* all started and run tasks, not yet shut down.
C11_Witness ==
    /\ threadNum = NumWorkers /\ ctor = "ok" /\ ~m_isShutdown
    /\ m_activeThreadCount = NumWorkers
    /\ \E t \in Tasks : execCount[t] = 1

\* C12: a worker leaves FetchTask towards its exit only from the test made
\* after the wait, and only in a state where the shutdown flag is set and
\* the queue is empty; it reaches "exited" only that way; and a worker that
\* makes that test while the queue is non-empty takes the front task.
C12_ExitOnlyWhenClosedAndEmpty ==
    [][\A w \in Workers :
          /\ (wpc'[w] = "exit" /\ wpc[w] # "exit") =>
                 (wpc[w] = "decide" /\ m_isShutdown /\ queue = << >>)
          /\ (wpc'[w] = "exited" /\ wpc[w] # "exited") => wpc[w] = "exit"
          /\ (wpc[w] = "decide" /\ wpc'[w] # "decide" /\ queue # << >>) =>
                 (wpc'[w] = "run" /\ cur'[w] = Head(queue))]_vars

\* C12 witness: after the flag was set a worker has run a task that was
\* queued before the flag, and a worker has then left through the test.
C12_Witness ==
    /\ m_isShutdown
    /\ \E w \in Workers : wpc[w] = "exit"
    /\ \E t \in Tasks : enqFlag[t] = "before" /\ execCount[t] = 1

\* =========================================================================
\* Part 2: TaskPool, src/Books/CPPCurrencyProgramming2th/xxx/ch4/task_pool.hpp
\* (workers.emplace is read as emplace_back and Task::operator() as the
\* ordering of the priority queue, which is what the header means.)
\* =========================================================================

threadPoolVars == << m_isShutdown, m_activeThreadCount, queue, mutex, waiters,
                     joinable, wpc, cur, spc, stask, nextTask, body, future, cpc,
                     joinIdx, ccalls, histVars, ctorVars >>

TPWorkerId(w) == << "worker", w >>
TPProducerId(p) == << "producer", p >>
TPDestructorId == << "destructor" >>

\* TaskPool::TaskPool(n), lines 13-32: stop is false, the queue is empty and
\* n worker threads have been created, each at the top of its loop.
TaskPoolConstructed(n) ==
    /\ tpThreadNum = n
    /\ stop = FALSE
    /\ tasks = {}
    /\ mtx = Free
    /\ cvWaiters = {}
    /\ tpwpc = [w \in TPWorkers |-> IF w <= n THEN "lock" ELSE "none"]
    /\ tpcur = [w \in TPWorkers |-> 0]
    /\ tppc = [p \in TPProducers |-> "idle"]
    /\ tptask = [p \in TPProducers |-> 0]
    /\ tpNext = 1
    /\ priority = [t \in TPTasks |-> 0]
    /\ tpFuture = [t \in TPTasks |-> "none"]
    /\ dpc = "idle"
    /\ dJoinIdx = 0
    /\ tpEnqueued = << >>
    /\ tpDequeued = << >>
    /\ tpCompleted = << >>
    /\ tpOwner = [t \in TPTasks |-> 0]
    /\ tpCalledStopped = {}
    /\ tpReturned = {}

TaskPoolInit ==
    /\ \E n \in 0..TPMaxThreads : TaskPoolConstructed(n)
    /\ ThreadPoolConstructed(0)
    /\ LFQIdle
    /\ LaterIdle

\* Task::operator(), lines 75-77: a is ordered before b.
TaskLess(a, b) == priority[a] < priority[b]

\* std::priority_queue::top(), line 24: a task that no pending task is
\* ordered after.  Task has no sequence number, so among tasks of equal
\* priority the queue may hand out any of them.
TopChoices == {t \in tasks : \A u \in tasks : ~TaskLess(t, u)}

\* The wait predicate of the worker, line 18.
TPWaitPredicate == stop \/ tasks = {}

\* Worker lambda outside the critical section.  With a popped task in hand
\* it runs task.func() (line 27): the packaged_task stores the value in the
\* task's future.  Otherwise it starts the next iteration of while(true) by
\* locking mtx (line 17).
TPWorkerIterate(w) ==
    /\ dpc # "done"
    /\ IF tpwpc[w] = "run"
         THEN /\ tpFuture' = [tpFuture EXCEPT ![tpcur[w]] = "value"]
              /\ tpCompleted' = Append(tpCompleted, tpcur[w])
              /\ tpcur' = [tpcur EXCEPT ![w] = 0]
              /\ tpwpc' = [tpwpc EXCEPT ![w] = "lock"]
              /\ UNCHANGED mtx
         ELSE /\ tpwpc[w] = "lock"
              /\ mtx = Free
              /\ mtx' = TPWorkerId(w)
              /\ tpwpc' = [tpwpc EXCEPT ![w] = "pred"]
              /\ UNCHANGED << tpFuture, tpCompleted, tpcur >>
    /\ UNCHANGED << tpThreadNum, stop, tasks, cvWaiters, tppc, tptask, tpNext,
                    priority, dpc, dJoinIdx, tpEnqueued, tpDequeued, tpOwner,
                    tpCalledStopped, tpReturned >>
    /\ UNCHANGED << threadPoolVars, lfqVars, laterVars >>

\* Worker lambda, line 18: cv.wait(lk, pred) evaluates pred with mtx held.
TPWorkerPred(w) ==
    /\ dpc # "done"
    /\ tpwpc[w] = "pred"
    /\ tpwpc' = [tpwpc EXCEPT ![w] = IF TPWaitPredicate THEN "decide" ELSE "block"]
    /\ UNCHANGED << tpThreadNum, stop, tasks, mtx, cvWaiters, tpcur, tppc, tptask,
                    tpNext, priority, tpFuture, dpc, dJoinIdx, tpEnqueued,
                    tpDequeued, tpCompleted, tpOwner, tpCalledStopped, tpReturned >>
    /\ UNCHANGED << threadPoolVars, lfqVars, laterVars >>

\* Worker lambda, line 18: pred was false, wait releases mtx and blocks.
TPWorkerWait(w) ==
    /\ dpc # "done"
    /\ tpwpc[w] = "block"
    /\ mtx' = Free
    /\ cvWaiters' = cvWaiters \cup {w}
    /\ tpwpc' = [tpwpc EXCEPT ![w] = "waiting"]
    /\ UNCHANGED << tpThreadNum, stop, tasks, tpcur, tppc, tptask, tpNext,
                    priority, tpFuture, dpc, dJoinIdx, tpEnqueued, tpDequeued,
                    tpCompleted, tpOwner, tpCalledStopped, tpReturned >>
    /\ UNCHANGED << threadPoolVars, lfqVars, laterVars >>

\* Worker lambda, line 18: a woken worker re-locks mtx and tests pred again.
TPWorkerWake(w) ==
    /\ dpc # "done"
    /\ tpwpc[w] = "waiting"
    /\ w \notin cvWaiters
    /\ mtx = Free
    /\ mtx' = TPWorkerId(w)
    /\ tpwpc' = [tpwpc EXCEPT ![w] = "pred"]
    /\ UNCHANGED << tpThreadNum, stop, tasks, cvWaiters, tpcur, tppc, tptask,
                    tpNext, priority, tpFuture, dpc, dJoinIdx, tpEnqueued,
                    tpDequeued, tpCompleted, tpOwner, tpCalledStopped, tpReturned >>
    /\ UNCHANGED << threadPoolVars, lfqVars, laterVars >>

\* std::condition_variable::wait may return without a notification.
TPSpuriousWakeup(w) ==
    /\ dpc # "done"
    /\ w \in cvWaiters
    /\ cvWaiters' = cvWaiters \ {w}
    /\ UNCHANGED << tpThreadNum, stop, tasks, mtx, tpwpc, tpcur, tppc, tptask,
                    tpNext, priority, tpFuture, dpc, dJoinIdx, tpEnqueued,
                    tpDequeued, tpCompleted, tpOwner, tpCalledStopped, tpReturned >>
    /\ UNCHANGED << threadPoolVars, lfqVars, laterVars >>

\* Worker lambda, lines 19-29, with mtx held since pred was true: return when
\* stopped and empty; else, if a task is pending, take the top one, pop it and
\* unlock; else fall out of the loop body, which unlocks.
TPWorkerDecide(w) ==
    /\ dpc # "done"
    /\ tpwpc[w] = "decide"
    /\ IF stop /\ tasks = {}
         THEN /\ tpwpc' = [tpwpc EXCEPT ![w] = "done"]
              /\ UNCHANGED << tasks, tpcur, tpDequeued >>
         ELSE IF tasks # {}
                THEN \E t \in TopChoices :
                        /\ tpcur' = [tpcur EXCEPT ![w] = t]
                        /\ tasks' = tasks \ {t}
                        /\ tpDequeued' = Append(tpDequeued, t)
                        /\ tpwpc' = [tpwpc EXCEPT ![w] = "run"]
                ELSE /\ tpwpc' = [tpwpc EXCEPT ![w] = "lock"]
                     /\ UNCHANGED << tasks, tpcur, tpDequeued >>
    /\ mtx' = Free
    /\ UNCHANGED << tpThreadNum, stop, cvWaiters, tppc, tptask, tpNext, priority,
                    tpFuture, dpc, dJoinIdx, tpEnqueued, tpCompleted, tpOwner,
                    tpCalledStopped, tpReturned >>
    /\ UNCHANGED << threadPoolVars, lfqVars, laterVars >>

TPWorker(w) ==
    \/ TPWorkerIterate(w)
    \/ TPWorkerPred(w)
    \/ TPWorkerWait(w)
    \/ TPWorkerWake(w)
    \/ TPWorkerDecide(w)

\* TaskPool::enqueue, lines 51-56: a call creates the packaged_task and its
\* future for the given priority.
TPEnqueueStart(p) ==
    /\ dpc # "done"
    /\ tppc[p] = "idle"
    /\ tpNext <= TPMaxTasks
    /\ \E pr \in 1..TPMaxPriority : priority' = [priority EXCEPT ![tpNext] = pr]
    /\ tpFuture' = [tpFuture EXCEPT ![tpNext] = "pending"]
    /\ tpOwner' = [tpOwner EXCEPT ![tpNext] = p]
    /\ tptask' = [tptask EXCEPT ![p] = tpNext]
    /\ tpNext' = tpNext + 1
    /\ tpCalledStopped' = IF stop THEN tpCalledStopped \cup {tpNext} ELSE tpCalledStopped
    /\ tppc' = [tppc EXCEPT ![p] = "lock"]
    /\ UNCHANGED << tpThreadNum, stop, tasks, mtx, cvWaiters, tpwpc, tpcur, dpc,
                    dJoinIdx, tpEnqueued, tpDequeued, tpCompleted, tpReturned >>
    /\ UNCHANGED << threadPoolVars, lfqVars, laterVars >>

\* TaskPool::enqueue, line 58: std::unique_lock<std::mutex> lk(mtx).
TPEnqueueLock(p) ==
    /\ dpc # "done"
    /\ tppc[p] = "lock"
    /\ mtx = Free
    /\ mtx' = TPProducerId(p)
    /\ tppc' = [tppc EXCEPT ![p] = "check"]
    /\ UNCHANGED << tpThreadNum, stop, tasks, cvWaiters, tpwpc, tpcur, tptask,
                    tpNext, priority, tpFuture, dpc, dJoinIdx, tpEnqueued,
                    tpDequeued, tpCompleted, tpOwner, tpCalledStopped, tpReturned >>
    /\ UNCHANGED << threadPoolVars, lfqVars, laterVars >>

\* TaskPool::enqueue, lines 59-62: on stop the call returns res and drops the
\* only owner of the packaged_task, which was never run: the future becomes
\* ready with std::future_error(broken_promise).
StoppedFuture == "broken_promise"

\* TaskPool::enqueue, lines 59-65, with mtx held: return on stop, else
\* tasks.emplace(priority, ...); mtx is released either way.
TPEnqueueCheck(p) ==
    /\ dpc # "done"
    /\ tppc[p] = "check"
    /\ IF stop
         THEN /\ tpFuture' = [tpFuture EXCEPT ![tptask[p]] = StoppedFuture]
              /\ tpReturned' = tpReturned \cup {tptask[p]}
              /\ tppc' = [tppc EXCEPT ![p] = "idle"]
              /\ tptask' = [tptask EXCEPT ![p] = 0]
              /\ UNCHANGED << tasks, tpEnqueued >>
         ELSE /\ tasks' = tasks \cup {tptask[p]}
              /\ tpEnqueued' = Append(tpEnqueued, tptask[p])
              /\ tppc' = [tppc EXCEPT ![p] = "notify"]
              /\ UNCHANGED << tpFuture, tpReturned, tptask >>
    /\ mtx' = Free
    /\ UNCHANGED << tpThreadNum, stop, cvWaiters, tpwpc, tpcur, tpNext, priority,
                    dpc, dJoinIdx, tpDequeued, tpCompleted, tpOwner, tpCalledStopped >>
    /\ UNCHANGED << threadPoolVars, lfqVars, laterVars >>

\* TaskPool::enqueue, lines 67-68: cv.notify_one() and return res.
TPEnqueueNotify(p) ==
    /\ dpc # "done"
    /\ tppc[p] = "notify"
    /\ IF cvWaiters = {}
         THEN UNCHANGED cvWaiters
         ELSE \E w \in cvWaiters : cvWaiters' = cvWaiters \ {w}
    /\ tpReturned' = tpReturned \cup {tptask[p]}
    /\ tppc' = [tppc EXCEPT ![p] = "idle"]
    /\ tptask' = [tptask EXCEPT ![p] = 0]
    /\ UNCHANGED << tpThreadNum, stop, tasks, mtx, tpwpc, tpcur, tpNext, priority,
                    tpFuture, dpc, dJoinIdx, tpEnqueued, tpDequeued, tpCompleted,
                    tpOwner, tpCalledStopped >>
    /\ UNCHANGED << threadPoolVars, lfqVars, laterVars >>

TPEnqueue(p) ==
    \/ TPEnqueueStart(p)
    \/ TPEnqueueLock(p)
    \/ TPEnqueueCheck(p)
    \/ TPEnqueueNotify(p)

\* TaskPool::~TaskPool, line 35: std::unique_lock<std::mutex> lk(mtx).
TPDtorLock ==
    /\ dpc = "idle"
    /\ mtx = Free
    /\ mtx' = TPDestructorId
    /\ dpc' = "stop"
    /\ UNCHANGED << tpThreadNum, stop, tasks, cvWaiters, tpwpc, tpcur, tppc, tptask,
                    tpNext, priority, tpFuture, dJoinIdx, tpEnqueued, tpDequeued,
                    tpCompleted, tpOwner, tpCalledStopped, tpReturned >>
    /\ UNCHANGED << threadPoolVars, lfqVars, laterVars >>

\* TaskPool::~TaskPool, lines 36-38: stop = true; cv.notify_all().
TPDtorStop ==
    /\ dpc = "stop"
    /\ stop' = TRUE
    /\ cvWaiters' = {}
    /\ dpc' = "join"
    /\ dJoinIdx' = 1
    /\ UNCHANGED << tpThreadNum, tasks, mtx, tpwpc, tpcur, tppc, tptask, tpNext,
                    priority, tpFuture, tpEnqueued, tpDequeued, tpCompleted,
                    tpOwner, tpCalledStopped, tpReturned >>
    /\ UNCHANGED << threadPoolVars, lfqVars, laterVars >>

\* TaskPool::~TaskPool, lines 40-42: the loop over workers; worker.join()
\* blocks until that thread has returned.  mtx is still held by lk.
TPDtorJoin ==
    /\ dpc = "join"
    /\ IF dJoinIdx > tpThreadNum
         THEN /\ dpc' = "unlock"
              /\ UNCHANGED dJoinIdx
         ELSE /\ tpwpc[dJoinIdx] = "done"
              /\ dJoinIdx' = dJoinIdx + 1
              /\ UNCHANGED dpc
    /\ UNCHANGED << tpThreadNum, stop, tasks, mtx, cvWaiters, tpwpc, tpcur, tppc,
                    tptask, tpNext, priority, tpFuture, tpEnqueued, tpDequeued,
                    tpCompleted, tpOwner, tpCalledStopped, tpReturned >>
    /\ UNCHANGED << threadPoolVars, lfqVars, laterVars >>

\* TaskPool::~TaskPool, line 43: the end of the body releases lk.
TPDtorUnlock ==
    /\ dpc = "unlock"
    /\ mtx' = Free
    /\ dpc' = "members"
    /\ UNCHANGED << tpThreadNum, stop, tasks, cvWaiters, tpwpc, tpcur, tppc, tptask,
                    tpNext, priority, tpFuture, dJoinIdx, tpEnqueued, tpDequeued,
                    tpCompleted, tpOwner, tpCalledStopped, tpReturned >>
    /\ UNCHANGED << threadPoolVars, lfqVars, laterVars >>

\* TaskPool::~TaskPool, after line 43: the members are destroyed and the
\* destructor returns; nothing may use the pool after that.
TPDtorMembers ==
    /\ dpc = "members"
    /\ dpc' = "done"
    /\ UNCHANGED << tpThreadNum, stop, tasks, mtx, cvWaiters, tpwpc, tpcur, tppc,
                    tptask, tpNext, priority, tpFuture, dJoinIdx, tpEnqueued,
                    tpDequeued, tpCompleted, tpOwner, tpCalledStopped, tpReturned >>
    /\ UNCHANGED << threadPoolVars, lfqVars, laterVars >>

TPDestructor ==
    \/ TPDtorLock
    \/ TPDtorStop
    \/ TPDtorJoin
    \/ TPDtorUnlock
    \/ TPDtorMembers

TaskPoolNext ==
    \/ \E w \in TPWorkers : TPWorker(w)
    \/ \E w \in TPWorkers : TPSpuriousWakeup(w)
    \/ \E p \in TPProducers : TPEnqueue(p)
    \/ TPDestructor

TaskPoolSpec == TaskPoolInit /\ [][TaskPoolNext]_vars

\* Fair scheduling: a thread that can take a step of what it is doing
\* eventually takes it.  Nothing obliges a client to call enqueue or to
\* destroy the pool, nor a condition variable to wake a thread spuriously.
TaskPoolFairness ==
    /\ \A w \in TPWorkers : WF_vars(TPWorker(w))
    /\ \A p \in TPProducers :
           WF_vars(TPEnqueueLock(p) \/ TPEnqueueCheck(p) \/ TPEnqueueNotify(p))
    /\ WF_vars(TPDtorStop \/ TPDtorJoin \/ TPDtorUnlock \/ TPDtorMembers)

TaskPoolFairSpec == TaskPoolSpec /\ TaskPoolFairness

\* Position of task t in a history sequence, 0 when absent.
TPIndex(seq, t) ==
    IF \E i \in 1..Len(seq) : seq[i] = t
      THEN CHOOSE i \in 1..Len(seq) : seq[i] = t
      ELSE 0

\* A worker step that dequeues: it takes a task out of tasks.
TPDequeueStep == \E t \in tasks : tasks' = tasks \ {t}

\* All tasks of the run are pending with pairwise distinct priorities in a
\* one-worker pool whose worker has dequeued nothing yet.
C13_AllPendingDistinct ==
    /\ tpThreadNum = 1
    /\ tasks = TPTasks
    /\ tpDequeued = << >>
    /\ \A a, b \in TPTasks : a # b => priority[a] # priority[b]

C13_CompletedByPriority ==
    /\ Len(tpCompleted) = TPMaxTasks
    /\ \A i, j \in 1..Len(tpCompleted) :
           i < j => priority[tpCompleted[i]] >= priority[tpCompleted[j]]

\* C13: every dequeue by a worker removes a task whose priority is the highest
\* among the pending ones, and N tasks with distinct priorities that are all
\* pending before the single worker of a one-worker pool dequeues are
\* completed in non-increasing order of priority (unless the pool is destroyed
\* first).
C13_PriorityOrder ==
    /\ [][TPDequeueStep =>
            \E t \in tasks : /\ tasks' = tasks \ {t}
                             /\ \A u \in tasks : priority[u] <= priority[t]]_vars
    /\ C13_AllPendingDistinct ~> (C13_CompletedByPriority \/ dpc # "idle")

\* C14: two tasks enqueued at equal priority by one caller are dequeued, and
\* with one worker completed, in the order they were enqueued (unless the pool
\* is destroyed first).
C14_StableAtEqualPriority ==
    /\ [](\A a, b \in TPTasks :
             (/\ tpOwner[a] = tpOwner[b]
              /\ priority[a] = priority[b]
              /\ TPIndex(tpEnqueued, a) # 0
              /\ TPIndex(tpEnqueued, a) < TPIndex(tpEnqueued, b)
              /\ TPIndex(tpDequeued, b) # 0)
             => /\ TPIndex(tpDequeued, a) # 0
                /\ TPIndex(tpDequeued, a) < TPIndex(tpDequeued, b))
    /\ \A a, b \in TPTasks :
          (/\ tpThreadNum = 1
           /\ a # b
           /\ {a, b} \subseteq tasks
           /\ tpOwner[a] = tpOwner[b]
           /\ priority[a] = priority[b]
           /\ TPIndex(tpEnqueued, a) < TPIndex(tpEnqueued, b))
          ~> \/ /\ TPIndex(tpCompleted, a) # 0
                /\ TPIndex(tpCompleted, a) < TPIndex(tpCompleted, b)
             \/ dpc # "idle"

\* C15: an enqueue called when stop is true does not add its task to the
\* queue and returns a future that is already resolved to a failure.
C15_StoppedEnqueueFails ==
    /\ [](\A t \in tpCalledStopped :
             /\ TPIndex(tpEnqueued, t) = 0
             /\ t \in tpReturned => tpFuture[t] = "broken_promise")
    /\ \A t \in TPTasks :
          (t \in tpCalledStopped /\ tpThreadNum >= 1)
          ~> (t \in tpReturned /\ tpFuture[t] = "broken_promise")

\* C16: a worker blocks only while the queue is empty and the pool is not
\* stopped, and every task enqueued while the pool is running is eventually
\* dequeued and executed without waiting for the pool to be stopped.
C16_BlocksOnlyWhenEmpty ==
    \A w \in TPWorkers : tpwpc[w] = "block" => (tasks = {} /\ ~stop)

\* C17: destruction terminates: once ~TaskPool has started it returns, all
\* workers having been joined.
C17_DestructorTerminates ==
    /\ [](dpc = "done" => \A w \in TPWorkers : tpwpc[w] \in {"none", "done"})
    /\ (dpc # "idle") ~> (dpc = "done")

\* =========================================================================
\* Part 3: LockFreeQueue<int>,
\* src/Books/CPPCurrencyProgramming2th/xxx/ch5/design_2.cpp
\* Threads call enqueue and dequeue concurrently; every atomic access is one
\* step.  A node is an address of the heap; `new` may hand out any address
\* that is not in use, a deleted one included.
\* =========================================================================

otherVars == << threadPoolVars, taskPoolVars, laterVars >>

\* LockFreeQueue(cap), lines 43-44: one sentinel node, head = tail = sentinel,
\* size 0.  No thread is inside a call.
LFQInit ==
    /\ head = 1
    /\ tail = 1
    /\ size = 0
    /\ heap = [a \in Addr |-> [live |-> a = 1, data |-> 0, next |-> nullptr]]
    /\ lfpc = [t \in LFQThreads |-> "idle"]
    /\ value = [t \in LFQThreads |-> 0]
    /\ newNode = [t \in LFQThreads |-> nullptr]
    /\ oldTail = [t \in LFQThreads |-> nullptr]
    /\ tailNext = [t \in LFQThreads |-> nullptr]
    /\ oldHead = [t \in LFQThreads |-> nullptr]
    /\ headNext = [t \in LFQThreads |-> nullptr]
    /\ result = [t \in LFQThreads |-> 0]
    /\ opCount = 0
    /\ enqueuedOk = << >>
    /\ enqueuedFull = << >>
    /\ dequeuedOk = << >>
    /\ aborted = FALSE
    /\ ThreadPoolConstructed(0)
    /\ TaskPoolIdle
    /\ LaterIdle

\* Line 55: currentSize >= capacity on size_t.  size is kept as the integer
\* sum of the fetch_add and fetch_sub calls; below zero the size_t value has
\* wrapped around to 2^64 - |size|, which is above every capacity.
SizeFull(n) == n < 0 \/ n >= QueueCapacity

Live == {a \in Addr : heap[a].live}

\* Node(value), lines 29 and 59: a fresh node with no successor.
Node(v) == [live |-> TRUE, data |-> v, next |-> nullptr]

\* delete node, line 88: the address goes back to the allocator.
Deleted == [live |-> FALSE, data |-> 0, next |-> nullptr]

\* node->next.load(), lines 63 and 80.  Reading a deleted node is undefined:
\* the load may return any pointer.
NextReads(a) == IF heap[a].live THEN {heap[a].next} ELSE {nullptr} \cup Addr

\* next->data, line 85.  Reading a deleted node may return any value.
DataReads(a) == IF heap[a].live THEN {heap[a].data} ELSE 0..LFQMaxOps

\* The locals of a call are dead once it returns.
LFQReturn(t) ==
    /\ lfpc' = [lfpc EXCEPT ![t] = "idle"]
    /\ value' = [value EXCEPT ![t] = 0]
    /\ newNode' = [newNode EXCEPT ![t] = nullptr]
    /\ oldTail' = [oldTail EXCEPT ![t] = nullptr]
    /\ tailNext' = [tailNext EXCEPT ![t] = nullptr]
    /\ oldHead' = [oldHead EXCEPT ![t] = nullptr]
    /\ headNext' = [headNext EXCEPT ![t] = nullptr]
    /\ result' = [result EXCEPT ![t] = 0]

\* enqueue, lines 54-57: a call with a fresh value loads size and returns
\* false when it is at least capacity.
LFQEnqueueCheck(t) ==
    /\ ~aborted
    /\ lfpc[t] = "idle"
    /\ opCount < LFQMaxOps
    /\ opCount' = opCount + 1
    /\ IF SizeFull(size)
         THEN /\ enqueuedFull' = Append(enqueuedFull, opCount + 1)
              /\ UNCHANGED << lfpc, value >>
         ELSE /\ Cardinality(Live) + Cardinality({u \in LFQThreads : lfpc[u] = "new"})
                    < LFQMaxAddr
              /\ lfpc' = [lfpc EXCEPT ![t] = "new"]
              /\ value' = [value EXCEPT ![t] = opCount + 1]
              /\ UNCHANGED enqueuedFull
    /\ UNCHANGED << head, tail, size, heap, newNode, oldTail, tailNext, oldHead,
                    headNext, result, enqueuedOk, dequeuedOk, aborted, otherVars >>

\* enqueue, line 59: newNode = new Node(value).
LFQEnqueueNew(t) ==
    /\ ~aborted
    /\ lfpc[t] = "new"
    /\ \E a \in Addr \ Live :
          /\ heap' = [heap EXCEPT ![a] = Node(value[t])]
          /\ newNode' = [newNode EXCEPT ![t] = a]
    /\ lfpc' = [lfpc EXCEPT ![t] = "e61"]
    /\ UNCHANGED << head, tail, size, value, oldTail, tailNext, oldHead, headNext,
                    result, opCount, enqueuedOk, enqueuedFull, dequeuedOk, aborted,
                    otherVars >>

\* enqueue, line 61: oldTail = tail.load().
LFQEnqueueLoadTail(t) ==
    /\ ~aborted
    /\ lfpc[t] = "e61"
    /\ oldTail' = [oldTail EXCEPT ![t] = tail]
    /\ lfpc' = [lfpc EXCEPT ![t] = "e62"]
    /\ UNCHANGED << head, tail, size, heap, value, newNode, tailNext, oldHead,
                    headNext, result, opCount, enqueuedOk, enqueuedFull, dequeuedOk,
                    aborted, otherVars >>

\* enqueue, line 62: if (oldTail == tail.load()), else the loop starts again.
LFQEnqueueRecheck(t) ==
    /\ ~aborted
    /\ lfpc[t] = "e62"
    /\ lfpc' = [lfpc EXCEPT ![t] = IF oldTail[t] = tail THEN "e63" ELSE "e61"]
    /\ UNCHANGED << head, tail, size, heap, value, newNode, oldTail, tailNext,
                    oldHead, headNext, result, opCount, enqueuedOk, enqueuedFull,
                    dequeuedOk, aborted, otherVars >>

\* enqueue, lines 63-64: next = oldTail->next.load(); if (next == nullptr).
LFQEnqueueLoadNext(t) ==
    /\ ~aborted
    /\ lfpc[t] = "e63"
    /\ \E n \in NextReads(oldTail[t]) :
          /\ tailNext' = [tailNext EXCEPT ![t] = n]
          /\ lfpc' = [lfpc EXCEPT ![t] = IF n = nullptr THEN "e65" ELSE "e71"]
    /\ UNCHANGED << head, tail, size, heap, value, newNode, oldTail, oldHead,
                    headNext, result, opCount, enqueuedOk, enqueuedFull, dequeuedOk,
                    aborted, otherVars >>

\* enqueue, line 65: oldTail->next.compare_exchange_strong(next, newNode) with
\* next == nullptr.  On a deleted node the exchange may succeed or fail, and
\* what it stores is lost when the address is handed out again.
LFQEnqueueLink(t) ==
    /\ ~aborted
    /\ lfpc[t] = "e65"
    /\ IF heap[oldTail[t]].live
         THEN IF heap[oldTail[t]].next = nullptr
                THEN /\ heap' = [heap EXCEPT ![oldTail[t]].next = newNode[t]]
                     /\ lfpc' = [lfpc EXCEPT ![t] = "e66"]
                ELSE /\ lfpc' = [lfpc EXCEPT ![t] = "e61"]
                     /\ UNCHANGED heap
         ELSE /\ \E ok \in BOOLEAN :
                    lfpc' = [lfpc EXCEPT ![t] = IF ok THEN "e66" ELSE "e61"]
              /\ UNCHANGED heap
    /\ UNCHANGED << head, tail, size, value, newNode, oldTail, tailNext, oldHead,
                    headNext, result, opCount, enqueuedOk, enqueuedFull, dequeuedOk,
                    aborted, otherVars >>

\* enqueue, line 66: tail.compare_exchange_strong(oldTail, newNode).
LFQEnqueueSwing(t) ==
    /\ ~aborted
    /\ lfpc[t] = "e66"
    /\ tail' = IF tail = oldTail[t] THEN newNode[t] ELSE tail
    /\ lfpc' = [lfpc EXCEPT ![t] = "e67"]
    /\ UNCHANGED << head, size, heap, value, newNode, oldTail, tailNext, oldHead,
                    headNext, result, opCount, enqueuedOk, enqueuedFull, dequeuedOk,
                    aborted, otherVars >>

\* enqueue, lines 67-68: size.fetch_add(1); return true.
LFQEnqueueDone(t) ==
    /\ ~aborted
    /\ lfpc[t] = "e67"
    /\ size' = size + 1
    /\ enqueuedOk' = Append(enqueuedOk, value[t])
    /\ LFQReturn(t)
    /\ UNCHANGED << head, tail, heap, opCount, enqueuedFull, dequeuedOk, aborted,
                    otherVars >>

\* enqueue, line 71: tail.compare_exchange_strong(oldTail, next); loop again.
LFQEnqueueHelp(t) ==
    /\ ~aborted
    /\ lfpc[t] = "e71"
    /\ tail' = IF tail = oldTail[t] THEN tailNext[t] ELSE tail
    /\ lfpc' = [lfpc EXCEPT ![t] = "e61"]
    /\ UNCHANGED << head, size, heap, value, newNode, oldTail, tailNext, oldHead,
                    headNext, result, opCount, enqueuedOk, enqueuedFull, dequeuedOk,
                    aborted, otherVars >>

enqueue(t) ==
    \/ LFQEnqueueCheck(t)
    \/ LFQEnqueueNew(t)
    \/ LFQEnqueueLoadTail(t)
    \/ LFQEnqueueRecheck(t)
    \/ LFQEnqueueLoadNext(t)
    \/ LFQEnqueueLink(t)
    \/ LFQEnqueueSwing(t)
    \/ LFQEnqueueDone(t)
    \/ LFQEnqueueHelp(t)

\* dequeue, line 79: oldHead = head.load(), at the start of a call and of
\* every further turn of the loop.
LFQDequeueLoadHead(t) ==
    /\ ~aborted
    /\ \/ lfpc[t] = "idle" /\ opCount < LFQMaxOps /\ opCount' = opCount + 1
       \/ lfpc[t] = "d79" /\ UNCHANGED opCount
    /\ oldHead' = [oldHead EXCEPT ![t] = head]
    /\ lfpc' = [lfpc EXCEPT ![t] = "d80"]
    /\ UNCHANGED << head, tail, size, heap, value, newNode, oldTail, tailNext,
                    headNext, result, enqueuedOk, enqueuedFull, dequeuedOk, aborted,
                    otherVars >>

\* dequeue, line 80: next = oldHead->next.load().
LFQDequeueLoadNext(t) ==
    /\ ~aborted
    /\ lfpc[t] = "d80"
    /\ \E n \in NextReads(oldHead[t]) : headNext' = [headNext EXCEPT ![t] = n]
    /\ lfpc' = [lfpc EXCEPT ![t] = "d81"]
    /\ UNCHANGED << head, tail, size, heap, value, newNode, oldTail, tailNext,
                    oldHead, result, opCount, enqueuedOk, enqueuedFull, dequeuedOk,
                    aborted, otherVars >>

\* dequeue, lines 81-84: if (oldHead == head.load()) and next is null the
\* queue is empty and the call returns false; if head moved, loop again.
LFQDequeueRecheck(t) ==
    /\ ~aborted
    /\ lfpc[t] = "d81"
    /\ IF oldHead[t] = head
         THEN IF headNext[t] = nullptr
                THEN LFQReturn(t)
                ELSE /\ lfpc' = [lfpc EXCEPT ![t] = "d85"]
                     /\ UNCHANGED << value, newNode, oldTail, tailNext, oldHead,
                                     headNext, result >>
         ELSE /\ lfpc' = [lfpc EXCEPT ![t] = "d79"]
              /\ UNCHANGED << value, newNode, oldTail, tailNext, oldHead, headNext,
                              result >>
    /\ UNCHANGED << head, tail, size, heap, opCount, enqueuedOk, enqueuedFull,
                    dequeuedOk, aborted, otherVars >>

\* dequeue, line 85: result = next->data.
LFQDequeueReadData(t) ==
    /\ ~aborted
    /\ lfpc[t] = "d85"
    /\ \E d \in DataReads(headNext[t]) : result' = [result EXCEPT ![t] = d]
    /\ lfpc' = [lfpc EXCEPT ![t] = "d86"]
    /\ UNCHANGED << head, tail, size, heap, value, newNode, oldTail, tailNext,
                    oldHead, headNext, opCount, enqueuedOk, enqueuedFull, dequeuedOk,
                    aborted, otherVars >>

\* cas, lines 38-40: target.compare_exchange_strong(expected, desired).
cas(expected, desired, target) == IF target = expected THEN desired ELSE target

\* dequeue, line 86: if (cas(oldHead, next, head)), else loop again.
LFQDequeueCas(t) ==
    /\ ~aborted
    /\ lfpc[t] = "d86"
    /\ head' = cas(oldHead[t], headNext[t], head)
    /\ lfpc' = [lfpc EXCEPT ![t] = IF head = oldHead[t] THEN "d87" ELSE "d79"]
    /\ UNCHANGED << tail, size, heap, value, newNode, oldTail, tailNext, oldHead,
                    headNext, result, opCount, enqueuedOk, enqueuedFull, dequeuedOk,
                    aborted, otherVars >>

\* dequeue, line 87: size.fetch_sub(1).
LFQDequeueSub(t) ==
    /\ ~aborted
    /\ lfpc[t] = "d87"
    /\ size' = size - 1
    /\ lfpc' = [lfpc EXCEPT ![t] = "d88"]
    /\ UNCHANGED << head, tail, heap, value, newNode, oldTail, tailNext, oldHead,
                    headNext, result, opCount, enqueuedOk, enqueuedFull, dequeuedOk,
                    aborted, otherVars >>

\* dequeue, lines 88-89: delete oldHead; return true.  Deleting a node that
\* is already deleted is undefined; here it goes unnoticed (LFQFault is the
\* other outcome).
LFQDequeueDelete(t) ==
    /\ ~aborted
    /\ lfpc[t] = "d88"
    /\ heap' = [heap EXCEPT ![oldHead[t]] = Deleted]
    /\ dequeuedOk' = Append(dequeuedOk, result[t])
    /\ LFQReturn(t)
    /\ UNCHANGED << head, tail, size, opCount, enqueuedOk, enqueuedFull, aborted,
                    otherVars >>

dequeue(t) ==
    \/ LFQDequeueLoadHead(t)
    \/ LFQDequeueLoadNext(t)
    \/ LFQDequeueRecheck(t)
    \/ LFQDequeueReadData(t)
    \/ LFQDequeueCas(t)
    \/ LFQDequeueSub(t)
    \/ LFQDequeueDelete(t)

\* The node a thread is about to dereference or delete.
Dereferenced(t) ==
    CASE lfpc[t] \in {"e63", "e65"} -> oldTail[t]
      [] lfpc[t] \in {"d80", "d88"} -> oldHead[t]
      [] lfpc[t] = "d85" -> headNext[t]
      [] OTHER -> nullptr

\* An access to a deleted node (lines 63, 65, 80, 85) or a second delete of
\* it (line 88) may also end the process.
LFQFault(t) ==
    /\ ~aborted
    /\ Dereferenced(t) # nullptr
    /\ ~heap[Dereferenced(t)].live
    /\ aborted' = TRUE
    /\ UNCHANGED << head, tail, size, heap, lfpc, value, newNode, oldTail, tailNext,
                    oldHead, headNext, result, opCount, enqueuedOk, enqueuedFull,
                    dequeuedOk, otherVars >>

LFQNext ==
    \/ \E t \in LFQThreads : enqueue(t)
    \/ \E t \in LFQThreads : dequeue(t)
    \/ \E t \in LFQThreads : LFQFault(t)

LFQSpec == LFQInit /\ [][LFQNext]_vars

\* The nodes linked from a, at most n of them, up to a null or deleted node.
RECURSIVE ChainFrom(_, _)
ChainFrom(a, n) ==
    IF n = 0 \/ a = nullptr \/ ~heap[a].live
      THEN << >>
      ELSE << a >> \o ChainFrom(heap[a].next, n - 1)

\* The chain of the queue: the sentinel first, then the payload nodes.
Chain == ChainFrom(head, LFQMaxAddr)

Range(seq) == {seq[i] : i \in 1..Len(seq)}

\* No thread is inside enqueue or dequeue.
Quiescent == \A t \in LFQThreads : lfpc[t] = "idle"

\* The values of the payload nodes still linked after the sentinel.
Remaining == [i \in 1..(Len(Chain) - 1) |-> heap[Chain[i + 1]].data]

\* C18: once all operations have completed, the number of successful
\* dequeues plus the number of payload nodes still linked equals the number
\* of successful enqueues, and the dequeued and remaining values are exactly
\* the enqueued values, none twice and none lost.
C18_Conservation ==
    (Quiescent /\ ~aborted) =>
        /\ Len(dequeuedOk) + Len(Remaining) = Len(enqueuedOk)
        /\ Range(dequeuedOk) \cup Range(Remaining) = Range(enqueuedOk)
        /\ Range(dequeuedOk) \cap Range(Remaining) = {}
        /\ Cardinality(Range(dequeuedOk)) = Len(dequeuedOk)
        /\ Cardinality(Range(Remaining)) = Len(Remaining)

\* C19: in every reachable state the chain from head holds at least the
\* sentinel, tail points to a node reachable from head, and neither head nor
\* tail points to a deleted node.
C19_HeadTailValid ==
    ~aborted =>
        /\ Len(Chain) >= 1
        /\ heap[head].live
        /\ heap[tail].live
        /\ tail \in Range(Chain)

\* C20: enqueue returns false whenever the size it reads is at least capacity
\* and then allocates and links nothing and leaves head, tail, size and the
\* chain unchanged; otherwise it links exactly one new node at the end of the
\* chain and returns true.
C20_EnqueueContract ==
    [][\A t \in LFQThreads :
          /\ (/\ opCount' # opCount
              /\ \A u \in LFQThreads : lfpc'[u] = "d80" => lfpc[u] = "d80"
              /\ SizeFull(size))
                => /\ enqueuedFull' = Append(enqueuedFull, opCount')
                   /\ lfpc' = lfpc
                   /\ UNCHANGED << head, tail, size, heap >>
          /\ (lfpc[t] = "e65" /\ lfpc'[t] = "e66")
                => /\ UNCHANGED << head, tail, size >>
                   /\ Chain' = Append(Chain, newNode[t])
          /\ (lfpc[t] = "e67" /\ lfpc'[t] = "idle")
                => /\ enqueuedOk' = Append(enqueuedOk, value[t])
                   /\ heap[newNode[t]].live
                   /\ heap[newNode[t]].data = value[t]]_vars

\* C21: a dequeue that returns false found no successor of head and changes
\* nothing; the call whose compare-and-swap on head succeeds returns the
\* payload of head's successor, the oldest value still in the queue.
C21_DequeueOldest ==
    [][\A t \in LFQThreads :
          /\ (lfpc[t] = "d81" /\ lfpc'[t] = "idle")
                => /\ headNext[t] = nullptr
                   /\ UNCHANGED << head, tail, size, heap, dequeuedOk >>
          /\ (lfpc[t] = "d86" /\ lfpc'[t] = "d87")
                => /\ Len(Chain) >= 2
                   /\ head' = Chain[2]
                   /\ result[t] = heap[Chain[2]].data
                   /\ result[t] \in Range(enqueuedOk)
                         \cup {value[u] : u \in LFQThreads}]_vars

\* C22: a node is deleted only by the dequeue whose compare-and-swap moved
\* head off it, after that exchange, and no node is deleted twice.
C22_DeleteOnce ==
    [][\A a \in Addr :
          (heap[a].live /\ ~heap'[a].live)
             => \E t \in LFQThreads :
                   /\ lfpc[t] = "d88"
                   /\ oldHead[t] = a
                   /\ head # a]_vars
    /\ [](\A t \in LFQThreads : lfpc[t] = "d88" => heap[oldHead[t]].live)


\* =========================================================================
\* Part 4: BoundedBuffer,
\* src/Books/CPPCurrencyProgramming2th/xxx/ch4/design_3.cpp
\* Producer threads call enqueue and consumer threads call dequeue.
\* =========================================================================

bbOthers == << threadPoolVars, taskPoolVars, lfqVars, dcpVars, cacheVars,
    ctpVars, fvVars, qtVars, spVars, alVars, rwVars, cbVars, sgVars >>

BBOthersIdle ==
    ThreadPoolConstructed(0) /\ TaskPoolIdle /\ LFQIdle /\
    DCPIdle /\ SCIdle /\ CTPIdle /\ FVIdle /\ QtIdle /\ SPIdle /\ ALIdle /\
    RWIdle /\ CBIdle /\ SGIdle

\* BoundedBuffer(cap), line 29: an empty queue; no thread is inside a call.
BBInit ==
    /\ buffer = << >>
    /\ bbmtx = 0
    /\ not_full = {}
    /\ not_empty = {}
    /\ bbpc = [t \in BBThreads |-> "idle"]
    /\ bbmsg = [t \in BBThreads |-> 0]
    /\ bbNext = 1
    /\ bbBlocked = [t \in BBThreads |-> FALSE]
    /\ bbSeen = [t \in BBThreads |-> 0]
    /\ bbPushes = 0
    /\ bbPops = 0
    /\ BBOthersIdle

\* Mutant of NotFullPredicate: enqueue never waits.
NotFullPredicate_Always == TRUE

\* The wait predicate of enqueue, line 34.
NotFullPredicate == Len(buffer) < BBCapacity

\* The wait predicate of dequeue, line 42.
NotEmptyPredicate == buffer # << >>

\* notify_one: one waiting thread, if there is any, stops waiting.
NotifyOne(cv) == IF cv = {} THEN {cv} ELSE {cv \ {w} : w \in cv}

\* enqueue, line 33: a producer calls enqueue(msg) and locks mtx.
BBEnqueueLock(t) ==
    /\ t \in BBProducers
    /\ bbpc[t] = "idle"
    /\ bbNext <= BBMaxMessages
    /\ bbmtx = 0
    /\ bbmtx' = t
    /\ bbmsg' = [bbmsg EXCEPT ![t] = bbNext]
    /\ bbNext' = bbNext + 1
    /\ bbBlocked' = [bbBlocked EXCEPT ![t] = FALSE]
    /\ bbpc' = [bbpc EXCEPT ![t] = "pred"]
    /\ UNCHANGED << buffer, not_full, not_empty, bbSeen, bbPushes, bbPops >>
    /\ UNCHANGED bbOthers

\* dequeue, line 41: a consumer calls dequeue() and locks mtx.
BBDequeueLock(t) ==
    /\ t \in BBConsumers
    /\ bbpc[t] = "idle"
    /\ bbmtx = 0
    /\ bbmtx' = t
    /\ bbBlocked' = [bbBlocked EXCEPT ![t] = FALSE]
    /\ bbpc' = [bbpc EXCEPT ![t] = "pred"]
    /\ UNCHANGED << buffer, not_full, not_empty, bbmsg, bbNext, bbSeen, bbPushes,
                    bbPops >>
    /\ UNCHANGED bbOthers

\* Lines 34 and 42: wait(lock, pred) evaluates pred with mtx held; when it
\* is false the thread is about to block, and what it saw is recorded.
BBPred(t) ==
    /\ bbpc[t] = "pred"
    /\ IF (IF t \in BBProducers THEN NotFullPredicate ELSE NotEmptyPredicate)
         THEN /\ bbpc' = [bbpc EXCEPT ![t] = "go"]
              /\ UNCHANGED << bbBlocked, bbSeen >>
         ELSE /\ bbpc' = [bbpc EXCEPT ![t] = "block"]
              /\ bbSeen' = [bbSeen EXCEPT ![t] =
                               IF bbBlocked[t] THEN bbSeen[t]
                               ELSE IF t \in BBProducers THEN bbPops ELSE bbPushes]
              /\ bbBlocked' = [bbBlocked EXCEPT ![t] = TRUE]
    /\ UNCHANGED << buffer, bbmtx, not_full, not_empty, bbmsg, bbNext, bbPushes,
                    bbPops >>
    /\ UNCHANGED bbOthers

\* Lines 34 and 42: wait releases mtx and blocks on its condition variable.
BBWait(t) ==
    /\ bbpc[t] = "block"
    /\ bbmtx' = 0
    /\ IF t \in BBProducers
         THEN not_full' = not_full \cup {t} /\ UNCHANGED not_empty
         ELSE not_empty' = not_empty \cup {t} /\ UNCHANGED not_full
    /\ bbpc' = [bbpc EXCEPT ![t] = "waiting"]
    /\ UNCHANGED << buffer, bbmsg, bbNext, bbBlocked, bbSeen, bbPushes, bbPops >>
    /\ UNCHANGED bbOthers

\* Lines 34 and 42: a woken thread re-locks mtx and tests pred again.
BBWake(t) ==
    /\ bbpc[t] = "waiting"
    /\ t \notin not_full \cup not_empty
    /\ bbmtx = 0
    /\ bbmtx' = t
    /\ bbpc' = [bbpc EXCEPT ![t] = "pred"]
    /\ UNCHANGED << buffer, not_full, not_empty, bbmsg, bbNext, bbBlocked, bbSeen,
                    bbPushes, bbPops >>
    /\ UNCHANGED bbOthers

\* std::condition_variable::wait may return without a notification.
BBSpuriousWakeup(t) ==
    /\ t \in not_full \cup not_empty
    /\ not_full' = not_full \ {t}
    /\ not_empty' = not_empty \ {t}
    /\ UNCHANGED << buffer, bbmtx, bbpc, bbmsg, bbNext, bbBlocked, bbSeen, bbPushes,
                    bbPops >>
    /\ UNCHANGED bbOthers

\* enqueue, line 35: buffer.push(msg).
BufferPush(q, m) == Append(q, m)

\* enqueue, lines 35-37: push, not_empty.notify_one(), unlock and return.
BBEnqueuePush(t) ==
    /\ t \in BBProducers
    /\ bbpc[t] = "go"
    /\ buffer' = BufferPush(buffer, bbmsg[t])
    /\ bbPushes' = bbPushes + 1
    /\ not_empty' \in NotifyOne(not_empty)
    /\ bbmtx' = 0
    /\ bbpc' = [bbpc EXCEPT ![t] = "idle"]
    /\ bbmsg' = [bbmsg EXCEPT ![t] = 0]
    /\ UNCHANGED << not_full, bbNext, bbBlocked, bbSeen, bbPops >>
    /\ UNCHANGED bbOthers

\* dequeue, lines 44-47: front, pop, not_full.notify_one(), unlock and
\* return the message.
BBDequeuePop(t) ==
    /\ t \in BBConsumers
    /\ bbpc[t] = "go"
    /\ bbmsg' = [bbmsg EXCEPT ![t] = Head(buffer)]
    /\ buffer' = Tail(buffer)
    /\ bbPops' = bbPops + 1
    /\ not_full' \in NotifyOne(not_full)
    /\ bbmtx' = 0
    /\ bbpc' = [bbpc EXCEPT ![t] = "idle"]
    /\ UNCHANGED << not_empty, bbNext, bbBlocked, bbSeen, bbPushes >>
    /\ UNCHANGED bbOthers

BBNext ==
    \/ \E t \in BBThreads : BBEnqueueLock(t)
    \/ \E t \in BBThreads : BBDequeueLock(t)
    \/ \E t \in BBThreads : BBPred(t)
    \/ \E t \in BBThreads : BBWait(t)
    \/ \E t \in BBThreads : BBWake(t)
    \/ \E t \in BBThreads : BBSpuriousWakeup(t)
    \/ \E t \in BBThreads : BBEnqueuePush(t)
    \/ \E t \in BBThreads : BBDequeuePop(t)

BBSpec == BBInit /\ [][BBNext]_vars

\* C23: the number of buffered messages never exceeds capacity; an enqueue
\* that found the buffer at capacity completes only after some dequeue has
\* removed a message, and a dequeue that found it empty completes only after
\* some enqueue has added one.
C23_Bounded ==
    /\ [](Len(buffer) <= BBCapacity)
    /\ [][\A t \in BBThreads :
            (bbpc[t] = "go" /\ bbpc'[t] = "idle" /\ bbBlocked[t])
               => IF t \in BBProducers THEN bbPops > bbSeen[t]
                                       ELSE bbPushes > bbSeen[t]]_vars

\* A producer that found the buffer full has now pushed its message.
C23_Witness ==
    \E t \in BBProducers :
        /\ bbBlocked[t]
        /\ bbpc[t] = "idle"
        /\ bbPops > 0
        /\ Len(buffer) = BBCapacity


\* =========================================================================
\* Part 5: DatabaseConnectionPool,
\* src/CPPCurrencyProgramming2th/xxx/ch4/design_4.cpp
\* Client threads call getConnection, use the connection and release it;
\* the detached autoReclaim thread runs beside them.
\* =========================================================================

dcpOthers == << threadPoolVars, taskPoolVars, lfqVars, bbVars, cacheVars,
    ctpVars, fvVars, qtVars, spVars, alVars, rwVars, cbVars, sgVars >>

DCPOthersIdle ==
    ThreadPoolConstructed(0) /\ TaskPoolIdle /\ LFQIdle /\
    BBIdle /\ SCIdle /\ CTPIdle /\ FVIdle /\ QtIdle /\ SPIdle /\ ALIdle /\
    RWIdle /\ CBIdle /\ SGIdle

\* DatabaseConnectionPool(maxConns), lines 57-63: maxConns idle connections.
DCPInit ==
    /\ connections = [i \in 1..maxConnections |-> i]
    /\ dcpmtx = 0
    /\ dcpcv = {}
    /\ dcppc = [t \in DCPThreads |-> "idle"]
    /\ dcpHeld = [t \in DCPThreads |-> 0]
    /\ dcpExpired = [t \in DCPThreads |-> FALSE]
    /\ dcpCalls = 0
    /\ DCPOthersIdle

\* The predicate of wait_for, line 72.
ConnectionAvailable == connections # << >>

\* getConnection, line 71: a client calls getConnection and locks mtx.
DCPGetLock(t) ==
    /\ dcppc[t] = "idle"
    /\ dcpCalls < DCPMaxCalls
    /\ dcpmtx = 0
    /\ dcpmtx' = t
    /\ dcpCalls' = dcpCalls + 1
    /\ dcpExpired' = [dcpExpired EXCEPT ![t] = FALSE]
    /\ dcppc' = [dcppc EXCEPT ![t] = "pred"]
    /\ UNCHANGED << connections, dcpcv, dcpHeld >>
    /\ UNCHANGED dcpOthers

\* getConnection, line 72: wait_for tests the predicate with mtx held.  When
\* it is true the wait is over; when it is false and the wait has just ended
\* by timeout, wait_for returns that value, false; else the thread blocks.
DCPGetPred(t) ==
    /\ dcppc[t] \in {"pred", "final"}
    /\ dcppc' = [dcppc EXCEPT ![t] =
                    IF ConnectionAvailable THEN "take"
                    ELSE IF dcppc[t] = "final" THEN "null" ELSE "block"]
    /\ UNCHANGED << connections, dcpmtx, dcpcv, dcpHeld, dcpExpired, dcpCalls >>
    /\ UNCHANGED dcpOthers

\* getConnection, line 72: wait_for releases mtx and blocks on cv, unless
\* the time is already up.
DCPGetWait(t) ==
    /\ dcppc[t] = "block"
    /\ dcpmtx' = 0
    /\ dcpcv' = IF dcpExpired[t] THEN dcpcv ELSE dcpcv \cup {t}
    /\ dcppc' = [dcppc EXCEPT ![t] = "waiting"]
    /\ UNCHANGED << connections, dcpHeld, dcpExpired, dcpCalls >>
    /\ UNCHANGED dcpOthers

\* getConnection, line 72: the 500 ms of wait_for are over; a thread that is
\* blocked on cv stops waiting.
DCPTimeout(t) ==
    /\ dcppc[t] \in {"pred", "block", "waiting"}
    /\ ~dcpExpired[t]
    /\ dcpcv' = dcpcv \ {t}
    /\ dcpExpired' = [dcpExpired EXCEPT ![t] = TRUE]
    /\ UNCHANGED << connections, dcpmtx, dcppc, dcpHeld, dcpCalls >>
    /\ UNCHANGED dcpOthers

\* std::condition_variable::wait_for may wake without a notification.
DCPSpuriousWakeup(t) ==
    /\ t \in dcpcv
    /\ dcpcv' = dcpcv \ {t}
    /\ UNCHANGED << connections, dcpmtx, dcppc, dcpHeld, dcpExpired, dcpCalls >>
    /\ UNCHANGED dcpOthers

\* getConnection, line 72: a thread that stopped waiting re-locks mtx and
\* tests the predicate again, for the last time if the time is up.
DCPGetWake(t) ==
    /\ dcppc[t] = "waiting"
    /\ t \notin dcpcv
    /\ dcpmtx = 0
    /\ dcpmtx' = t
    /\ dcppc' = [dcppc EXCEPT ![t] = IF dcpExpired[t] THEN "final" ELSE "pred"]
    /\ UNCHANGED << connections, dcpcv, dcpHeld, dcpExpired, dcpCalls >>
    /\ UNCHANGED dcpOthers

\* Mutant of ConnectionsAfterTake: the connection stays in the idle queue.
ConnectionsAfterTake_Keep(q) == q

\* getConnection, line 74: connections.pop().
ConnectionsAfterTake(q) == Tail(q)

\* getConnection, lines 73-76: move the front connection out, pop, unlock
\* and return it.
DCPGetTake(t) ==
    /\ dcppc[t] = "take"
    /\ dcpHeld' = [dcpHeld EXCEPT ![t] = Head(connections)]
    /\ connections' = ConnectionsAfterTake(connections)
    /\ dcpmtx' = 0
    /\ dcppc' = [dcppc EXCEPT ![t] = "using"]
    /\ UNCHANGED << dcpcv, dcpExpired, dcpCalls >>
    /\ UNCHANGED dcpOthers

\* getConnection, line 78: return nullptr; the client prints the failure.
DCPGetNull(t) ==
    /\ dcppc[t] = "null"
    /\ dcpmtx' = 0
    /\ dcppc' = [dcppc EXCEPT ![t] = "idle"]
    /\ UNCHANGED << connections, dcpcv, dcpHeld, dcpExpired, dcpCalls >>
    /\ UNCHANGED dcpOthers

\* releaseConnection, lines 82-87, after executeQuery (line 97): lock, push
\* the connection back, notify_one, unlock.
releaseConnection(t) ==
    /\ dcppc[t] = "using"
    /\ dcpmtx = 0
    /\ connections' = Append(connections, dcpHeld[t])
    /\ dcpHeld' = [dcpHeld EXCEPT ![t] = 0]
    /\ dcpcv' \in NotifyOne(dcpcv)
    /\ dcppc' = [dcppc EXCEPT ![t] = "idle"]
    /\ UNCHANGED << dcpmtx, dcpExpired, dcpCalls >>
    /\ UNCHANGED dcpOthers

\* autoReclaim, lines 40-52: under mtx, when the pool has been idle for two
\* minutes every idle connection is popped (now and lastUsed do not change
\* inside the loop); otherwise nothing happens.
autoReclaim ==
    /\ dcpmtx = 0
    /\ connections # << >>
    /\ connections' = << >>
    /\ UNCHANGED << dcpmtx, dcpcv, dcppc, dcpHeld, dcpExpired, dcpCalls >>
    /\ UNCHANGED dcpOthers

getConnection(t) ==
    \/ DCPGetLock(t)
    \/ DCPGetPred(t)
    \/ DCPGetWait(t)
    \/ DCPGetWake(t)
    \/ DCPGetTake(t)
    \/ DCPGetNull(t)

DCPNext ==
    \/ \E t \in DCPThreads : getConnection(t)
    \/ \E t \in DCPThreads : DCPTimeout(t)
    \/ \E t \in DCPThreads : DCPSpuriousWakeup(t)
    \/ \E t \in DCPThreads : releaseConnection(t)
    \/ autoReclaim

DCPSpec == DCPInit /\ [][DCPNext]_vars

\* Fair scheduling: a thread inside getConnection or releaseConnection takes
\* its next step when it can, and the timer of wait_for expires.
DCPFairness ==
    /\ \A t \in DCPThreads :
          WF_vars(DCPGetPred(t) \/ DCPGetWait(t) \/ DCPGetWake(t)
                    \/ DCPGetTake(t) \/ DCPGetNull(t))
    /\ \A t \in DCPThreads : WF_vars(DCPTimeout(t))
    /\ \A t \in DCPThreads : WF_vars(releaseConnection(t))

DCPFairSpec == DCPSpec /\ DCPFairness

\* A thread is inside getConnection.
InGetConnection(t) ==
    dcppc[t] \in {"pred", "block", "waiting", "final", "take", "null"}

\* C24: getConnection never blocks forever; when it returns nullptr no
\* connection is idle and the pool is unchanged; otherwise it removes
\* exactly one connection, the front one, from the idle queue and returns it.
C24_GetConnection ==
    /\ \A t \in DCPThreads : InGetConnection(t) ~> ~InGetConnection(t)
    /\ [][\A t \in DCPThreads :
            /\ (InGetConnection(t) /\ dcppc'[t] = "idle")
                  => /\ dcpExpired[t]
                     /\ connections = << >>
                     /\ UNCHANGED << connections, dcpHeld >>
            /\ (InGetConnection(t) /\ dcppc'[t] = "using")
                  => /\ connections # << >>
                     /\ dcpHeld'[t] = Head(connections)
                     /\ connections' = Tail(connections)
                     /\ \A u \in DCPThreads \ {t} : dcpHeld'[u] = dcpHeld[u]]_vars

\* One call has timed out and returned nullptr while another thread holds
\* a connection it obtained.
C24_Witness ==
    \E t, u \in DCPThreads :
        /\ dcppc[t] = "idle"
        /\ dcpExpired[t]
        /\ dcppc[u] = "using"
        /\ dcpHeld[u] # 0


\* =========================================================================
\* Part 6: SafeCache<Key, Value>,
\* src/Books/CPPCurrencyProgramming2th/xxx/ch4/design_1.cpp
\* Threads call get(key) concurrently.  An absent map entry is << >> (cache)
\* or 0 (pending); a promise without a value is << >>.
\* =========================================================================

scOthers == << threadPoolVars, taskPoolVars, lfqVars, bbVars, dcpVars,
    ctpVars, fvVars, qtVars, spVars, alVars, rwVars, cbVars, sgVars >>

SCOthersIdle ==
    ThreadPoolConstructed(0) /\ TaskPoolIdle /\ LFQIdle /\
    BBIdle /\ DCPIdle /\ CTPIdle /\ FVIdle /\ QtIdle /\ SPIdle /\ ALIdle /\
    RWIdle /\ CBIdle /\ SGIdle

\* SafeCache(): empty maps, the mutex free, no thread inside get.
SCInit ==
    /\ scWriter = 0
    /\ scReaders = {}
    /\ cache = [k \in SCKeys |-> << >>]
    /\ pending = [k \in SCKeys |-> 0]
    /\ promises = [p \in SCPromises |-> << >>]
    /\ scpc = [t \in SCThreads |-> "idle"]
    /\ sckey = [t \in SCThreads |-> 0]
    /\ scfut = [t \in SCThreads |-> 0]
    /\ scres = [t \in SCThreads |-> << >>]
    /\ scCalls = 0
    /\ computeCount = [k \in SCKeys |-> 0]
    /\ scReturned = [k \in SCKeys |-> {}]
    /\ SCOthersIdle

\* compute(key), lines 59-63: toString(key) + "_value".
compute(k) == << k, "_value" >>

\* get returns value v for thread t: the call is over.
SCReturn(t, v) ==
    /\ scReturned' = [scReturned EXCEPT ![sckey[t]] = @ \cup {v}]
    /\ scpc' = [scpc EXCEPT ![t] = "idle"]
    /\ sckey' = [sckey EXCEPT ![t] = 0]
    /\ scfut' = [scfut EXCEPT ![t] = 0]
    /\ scres' = [scres EXCEPT ![t] = << >>]

\* get, line 67: a thread calls get(key); std::shared_lock lock(mtx).
SCSharedLock(t) ==
    /\ scpc[t] = "idle"
    /\ scCalls < SCMaxCalls
    /\ scWriter = 0
    /\ scReaders' = scReaders \cup {t}
    /\ scCalls' = scCalls + 1
    /\ \E k \in SCKeys : sckey' = [sckey EXCEPT ![t] = k]
    /\ scpc' = [scpc EXCEPT ![t] = "find"]
    /\ UNCHANGED << scWriter, cache, pending, promises, scfut, scres, computeCount,
                    scReturned >>
    /\ UNCHANGED scOthers

\* get, lines 68-72: return the cached value if there is one; else
\* lock.unlock().
SCFindCache(t) ==
    /\ scpc[t] = "find"
    /\ scReaders' = scReaders \ {t}
    /\ IF cache[sckey[t]] # << >>
         THEN SCReturn(t, cache[sckey[t]])
         ELSE /\ scpc' = [scpc EXCEPT ![t] = "unique"]
              /\ UNCHANGED << sckey, scfut, scres, scReturned >>
    /\ UNCHANGED << scWriter, cache, pending, promises, scCalls, computeCount >>
    /\ UNCHANGED scOthers

\* get, line 73: std::unique_lock uniqueLock(mtx).
SCUniqueLock(t) ==
    /\ scpc[t] = "unique"
    /\ scWriter = 0
    /\ scReaders = {}
    /\ scWriter' = t
    /\ scpc' = [scpc EXCEPT ![t] = "pending"]
    /\ UNCHANGED << scReaders, cache, pending, promises, sckey, scfut, scres,
                    scCalls, computeCount, scReturned >>
    /\ UNCHANGED scOthers

\* get, lines 75-85, with mtx held: take the pending future if there is one;
\* else make a promise, enter its future in pending.  Unlock either way.
SCFindPending(t) ==
    /\ scpc[t] = "pending"
    /\ IF pending[sckey[t]] # 0
         THEN /\ scfut' = [scfut EXCEPT ![t] = pending[sckey[t]]]
              /\ scpc' = [scpc EXCEPT ![t] = "wait"]
              /\ UNCHANGED pending
         ELSE \E p \in SCPromises :
                 /\ \A u \in SCThreads : scfut[u] # p
                 /\ promises[p] = << >>
                 /\ \A k \in SCKeys : pending[k] # p
                 /\ \A q \in SCPromises :
                       (q < p) => \/ promises[q] # << >>
                                  \/ \E u \in SCThreads : scfut[u] = q
                 /\ scfut' = [scfut EXCEPT ![t] = p]
                 /\ pending' = [pending EXCEPT ![sckey[t]] = p]
                 /\ scpc' = [scpc EXCEPT ![t] = "compute"]
    /\ scWriter' = 0
    /\ UNCHANGED << scReaders, cache, promises, sckey, scres, scCalls, computeCount,
                    scReturned >>
    /\ UNCHANGED scOthers

\* get, line 78: return fut.get() blocks until the promise has a value.
SCWaitFuture(t) ==
    /\ scpc[t] = "wait"
    /\ promises[scfut[t]] # << >>
    /\ SCReturn(t, promises[scfut[t]])
    /\ UNCHANGED << scWriter, scReaders, cache, pending, promises, scCalls,
                    computeCount >>
    /\ UNCHANGED scOthers

\* get, line 88: res = compute(key), outside the mutex.
SCCompute(t) ==
    /\ scpc[t] = "compute"
    /\ scres' = [scres EXCEPT ![t] = compute(sckey[t])]
    /\ computeCount' = [computeCount EXCEPT ![sckey[t]] = @ + 1]
    /\ scpc' = [scpc EXCEPT ![t] = "final"]
    /\ UNCHANGED << scWriter, scReaders, cache, pending, promises, sckey, scfut,
                    scCalls, scReturned >>
    /\ UNCHANGED scOthers

\* cache.emplace(key, res), line 90: an existing entry is kept.
Emplace(m, k, v) == IF m[k] # << >> THEN m ELSE [m EXCEPT ![k] = v]

\* get, lines 89-92: under finalLock, cache.emplace, pending.erase,
\* promise->set_value; the lock ends with the try block.
SCFinal(t) ==
    /\ scpc[t] = "final"
    /\ scWriter = 0
    /\ scReaders = {}
    /\ cache' = Emplace(cache, sckey[t], scres[t])
    /\ pending' = [pending EXCEPT ![sckey[t]] = 0]
    /\ promises' = [promises EXCEPT ![scfut[t]] = scres[t]]
    /\ scpc' = [scpc EXCEPT ![t] = "get"]
    /\ UNCHANGED << scWriter, scReaders, sckey, scfut, scres, scCalls, computeCount,
                    scReturned >>
    /\ UNCHANGED scOthers

\* get, line 99: return fut.get().
SCGet(t) ==
    /\ scpc[t] = "get"
    /\ SCReturn(t, promises[scfut[t]])
    /\ UNCHANGED << scWriter, scReaders, cache, pending, promises, scCalls,
                    computeCount >>
    /\ UNCHANGED scOthers

get(t) ==
    \/ SCSharedLock(t)
    \/ SCFindCache(t)
    \/ SCUniqueLock(t)
    \/ SCFindPending(t)
    \/ SCWaitFuture(t)
    \/ SCCompute(t)
    \/ SCFinal(t)
    \/ SCGet(t)

SCNext == \E t \in SCThreads : get(t)

SCSpec == SCInit /\ [][SCNext]_vars

\* C25: for any number of threads calling get with the same key, compute is
\* executed only once for that key and every caller returns the value of
\* that computation.
C25_ComputeOnce ==
    \A k \in SCKeys :
        /\ computeCount[k] <= 1
        /\ scReturned[k] \subseteq {compute(k)}


\* =========================================================================
\* Part 7: C ThreadPool (pthread),
\* src/Study_ThreadPool/yzj/c_vs_cpp/thread_pool/c/thread_pool.c and main.c
\* The main thread adds tasks and then destroys the pool; the workers run
\* worker_thread.  ctpLock is -1 when free, else the holder.
\* =========================================================================

ctpOthers == << threadPoolVars, taskPoolVars, lfqVars, bbVars, dcpVars,
    cacheVars, fvVars, qtVars, spVars, alVars, rwVars, cbVars, sgVars >>

CTPOthersIdle ==
    ThreadPoolConstructed(0) /\ TaskPoolIdle /\ LFQIdle /\
    BBIdle /\ DCPIdle /\ SCIdle /\ FVIdle /\ QtIdle /\ SPIdle /\ ALIdle /\
    RWIdle /\ CBIdle /\ SGIdle

\* threadpool_create(num_threads), lines 32-46.
CTPInit ==
    /\ ctpShutdown = 0
    /\ task_queue = << >>
    /\ task_count = 0
    /\ ctpLock = -1
    /\ ctpCond = {}
    /\ ctpwpc = [w \in CTPWorkers |-> "lock"]
    /\ ctpcur = [w \in CTPWorkers |-> 0]
    /\ ctpmain = "add"
    /\ ctpJoin = 0
    /\ ctpAdded = 0
    /\ ctpExecuted = << >>
    /\ CTPOthersIdle

\* worker_thread, line 7: pthread_mutex_lock.
CTPWorkerLock(w) ==
    /\ ctpwpc[w] = "lock"
    /\ ctpLock = -1
    /\ ctpLock' = w
    /\ ctpwpc' = [ctpwpc EXCEPT ![w] = "check"]
    /\ UNCHANGED << ctpShutdown, task_queue, task_count, ctpCond, ctpcur, ctpmain,
                    ctpJoin, ctpAdded, ctpExecuted >>
    /\ UNCHANGED ctpOthers

\* worker_thread, line 12: if (pool->shutdown).
ExitOnShutdown(sd, n) == sd # 0

\* worker_thread, lines 8-22, with the lock held: wait while there is no
\* task and no shutdown (pthread_cond_wait releases the lock and blocks in
\* one step); exit on shutdown; else take the first task and unlock.
CTPWorkerCheck(w) ==
    /\ ctpwpc[w] = "check"
    /\ ctpLock' = -1
    /\ IF task_count = 0 /\ ctpShutdown = 0
         THEN /\ ctpCond' = ctpCond \cup {w}
              /\ ctpwpc' = [ctpwpc EXCEPT ![w] = "waiting"]
              /\ UNCHANGED << task_queue, task_count, ctpcur >>
         ELSE IF ExitOnShutdown(ctpShutdown, task_count)
                THEN /\ ctpwpc' = [ctpwpc EXCEPT ![w] = "exited"]
                     /\ UNCHANGED << task_queue, task_count, ctpcur, ctpCond >>
                ELSE /\ ctpcur' = [ctpcur EXCEPT ![w] = Head(task_queue)]
                     /\ task_queue' = Tail(task_queue)
                     /\ task_count' = task_count - 1
                     /\ ctpwpc' = [ctpwpc EXCEPT ![w] = "run"]
                     /\ UNCHANGED ctpCond
    /\ UNCHANGED << ctpShutdown, ctpmain, ctpJoin, ctpAdded, ctpExecuted >>
    /\ UNCHANGED ctpOthers

\* worker_thread, line 9: pthread_cond_wait returns with the lock held.
CTPWorkerWake(w) ==
    /\ ctpwpc[w] = "waiting"
    /\ w \notin ctpCond
    /\ ctpLock = -1
    /\ ctpLock' = w
    /\ ctpwpc' = [ctpwpc EXCEPT ![w] = "check"]
    /\ UNCHANGED << ctpShutdown, task_queue, task_count, ctpCond, ctpcur, ctpmain,
                    ctpJoin, ctpAdded, ctpExecuted >>
    /\ UNCHANGED ctpOthers

\* pthread_cond_wait may return without a signal.
CTPSpuriousWakeup(w) ==
    /\ w \in ctpCond
    /\ ctpCond' = ctpCond \ {w}
    /\ UNCHANGED << ctpShutdown, task_queue, task_count, ctpLock, ctpwpc, ctpcur,
                    ctpmain, ctpJoin, ctpAdded, ctpExecuted >>
    /\ UNCHANGED ctpOthers

\* worker_thread, lines 24-27: task->func(task->arg); free(task).
CTPWorkerRun(w) ==
    /\ ctpwpc[w] = "run"
    /\ ctpExecuted' = Append(ctpExecuted, ctpcur[w])
    /\ ctpcur' = [ctpcur EXCEPT ![w] = 0]
    /\ ctpwpc' = [ctpwpc EXCEPT ![w] = "lock"]
    /\ UNCHANGED << ctpShutdown, task_queue, task_count, ctpLock, ctpCond, ctpmain,
                    ctpJoin, ctpAdded >>
    /\ UNCHANGED ctpOthers

worker_thread(w) ==
    \/ CTPWorkerLock(w)
    \/ CTPWorkerCheck(w)
    \/ CTPWorkerWake(w)
    \/ CTPWorkerRun(w)

\* threadpool_add_task, lines 48-65, called by main (main.c:26-31): under
\* the lock the task goes to the end of the list, task_count++, signal.
threadpool_add_task ==
    /\ ctpmain = "add"
    /\ ctpAdded < CTPTaskCount
    /\ ctpLock = -1
    /\ task_queue' = Append(task_queue, ctpAdded + 1)
    /\ task_count' = task_count + 1
    /\ ctpAdded' = ctpAdded + 1
    /\ ctpCond' \in NotifyOne(ctpCond)
    /\ UNCHANGED << ctpShutdown, ctpLock, ctpwpc, ctpcur, ctpmain, ctpJoin,
                    ctpExecuted >>
    /\ UNCHANGED ctpOthers

\* threadpool_destroy, lines 68-71, called by main (main.c:33): under the
\* lock shutdown = 1 and broadcast.
CTPDestroyShutdown ==
    /\ ctpmain = "add"
    /\ ctpLock = -1
    /\ ctpShutdown' = 1
    /\ ctpCond' = {}
    /\ ctpmain' = "join"
    /\ ctpJoin' = 1
    /\ UNCHANGED << task_queue, task_count, ctpLock, ctpwpc, ctpcur, ctpAdded,
                    ctpExecuted >>
    /\ UNCHANGED ctpOthers

\* threadpool_destroy, lines 73-80: join every worker in turn, then free the
\* pool and return.
CTPDestroyJoin ==
    /\ ctpmain = "join"
    /\ IF ctpJoin > CTPNumThreads
         THEN /\ ctpmain' = "done"
              /\ UNCHANGED ctpJoin
         ELSE /\ ctpwpc[ctpJoin] = "exited"
              /\ ctpJoin' = ctpJoin + 1
              /\ UNCHANGED ctpmain
    /\ UNCHANGED << ctpShutdown, task_queue, task_count, ctpLock, ctpCond, ctpwpc,
                    ctpcur, ctpAdded, ctpExecuted >>
    /\ UNCHANGED ctpOthers

threadpool_destroy == CTPDestroyShutdown \/ CTPDestroyJoin

CTPNext ==
    \/ \E w \in CTPWorkers : worker_thread(w)
    \/ \E w \in CTPWorkers : CTPSpuriousWakeup(w)
    \/ threadpool_add_task
    \/ threadpool_destroy

CTPSpec == CTPInit /\ [][CTPNext]_vars

\* C26: threadpool_destroy returns only after every task added before the
\* call has been executed by a worker.
C26_DestroyDrains ==
    ctpmain = "done" =>
        \A i \in 1..ctpAdded : \E j \in 1..Len(ctpExecuted) : ctpExecuted[j] = i


\* =========================================================================
\* Part 8: C thread_pool (follow_video),
\* src/Study_ThreadPool/yzj/follow_video/thread_pool.c and
\* src/LinuxLesson/Study_ThreadPool/yzj/follow_video/thread_pool_test.cpp
\* Producers call thread_pool_post, the workers run __thread_pool_worker, and
\* the main thread may call thread_pool_terminate and thread_pool_wait.
\* fvMutex is -1 when free, else the holder.  The spin-locked body of
\* __pop_task is one step.
\* =========================================================================

fvOthers == << threadPoolVars, taskPoolVars, lfqVars, bbVars, dcpVars,
    cacheVars, ctpVars, qtVars, spVars, alVars, rwVars, cbVars, sgVars >>

FVOthersIdle ==
    ThreadPoolConstructed(0) /\ TaskPoolIdle /\ LFQIdle /\
    BBIdle /\ DCPIdle /\ SCIdle /\ CTPIdle /\ QtIdle /\ SPIdle /\ ALIdle /\
    RWIdle /\ CBIdle /\ SGIdle

\* thread_pool_create(thread_count), lines 201-222, with __task_queue_create
\* (lines 33-55: head = NULL, block = 1) and atomic_init(&pool->quit, 0).
FVInit ==
    /\ quit = 0
    /\ fvQueue = << >>
    /\ block = 1
    /\ fvMutex = -1
    /\ fvCond = {}
    /\ fvwpc = [w \in FVWorkers |-> "loop"]
    /\ fvppc = [p \in FVProducers |-> "idle"]
    /\ fvtask = [p \in FVProducers |-> 0]
    /\ fvNextTask = 1
    /\ fvmain = "run"
    /\ fvPosted = {}
    /\ fvExecuted = << >>
    /\ FVOthersIdle

\* __add_task(queue, task), lines 65-70: the body only clears task->next; the
\* task is not linked behind queue->tail and queue->cond is not signalled, so
\* the queue and the waiters are what they were.
__add_task(q, task) == q

\* thread_pool_post, lines 226-228: if (atomic_load(&pool->quit) == 1)
\* return -1; otherwise go on to allocate the task.
FVPostCheck(p) ==
    /\ fvppc[p] = "idle"
    /\ fvNextTask <= FVMaxTasks
    /\ IF quit = 1
         THEN UNCHANGED << fvppc, fvtask, fvNextTask >>
         ELSE /\ fvppc' = [fvppc EXCEPT ![p] = "add"]
              /\ fvtask' = [fvtask EXCEPT ![p] = fvNextTask]
              /\ fvNextTask' = fvNextTask + 1
    /\ UNCHANGED << quit, fvQueue, block, fvMutex, fvCond, fvwpc, fvmain,
                    fvPosted, fvExecuted >>
    /\ UNCHANGED fvOthers

\* thread_pool_post, lines 230-240: malloc the task, fill it, __add_task,
\* return 0.
FVPostAdd(p) ==
    /\ fvppc[p] = "add"
    /\ fvQueue' = __add_task(fvQueue, fvtask[p])
    /\ fvPosted' = fvPosted \cup {fvtask[p]}
    /\ fvppc' = [fvppc EXCEPT ![p] = "idle"]
    /\ UNCHANGED << quit, block, fvMutex, fvCond, fvwpc, fvtask, fvNextTask,
                    fvmain, fvExecuted >>
    /\ UNCHANGED fvOthers

thread_pool_post(p) == FVPostCheck(p) \/ FVPostAdd(p)

\* __thread_pool_worker, line 137: while (atomic_load(&pool->quit) == 0).
FVWorkerLoop(w) ==
    /\ fvwpc[w] = "loop"
    /\ fvwpc' = [fvwpc EXCEPT ![w] = IF quit = 0 THEN "pop" ELSE "exited"]
    /\ UNCHANGED << quit, fvQueue, block, fvMutex, fvCond, fvppc, fvtask,
                    fvNextTask, fvmain, fvPosted, fvExecuted >>
    /\ UNCHANGED fvOthers

\* __get_task line 98 with __pop_task, lines 72-92: under the spin lock, NULL
\* when head is NULL, else the head task is unlinked; a task that was popped
\* goes back to the worker (lines 143-146: free it and call func(ctx)).
FVWorkerPop(w) ==
    /\ fvwpc[w] = "pop"
    /\ IF fvQueue = << >>
         THEN /\ fvwpc' = [fvwpc EXCEPT ![w] = "lock"]
              /\ UNCHANGED << fvQueue, fvExecuted >>
         ELSE /\ fvQueue' = Tail(fvQueue)
              /\ fvExecuted' = Append(fvExecuted, Head(fvQueue))
              /\ fvwpc' = [fvwpc EXCEPT ![w] = "loop"]
    /\ UNCHANGED << quit, block, fvMutex, fvCond, fvppc, fvtask, fvNextTask,
                    fvmain, fvPosted >>
    /\ UNCHANGED fvOthers

\* __get_task, lines 99-110: lock the mutex; if block == 0 unlock and return
\* NULL (the worker breaks out of its loop, lines 139-141); else
\* pthread_cond_wait releases the mutex and blocks.
FVWorkerLock(w) ==
    /\ fvwpc[w] = "lock"
    /\ fvMutex = -1
    /\ IF block = 0
         THEN /\ fvwpc' = [fvwpc EXCEPT ![w] = "exited"]
              /\ UNCHANGED fvCond
         ELSE /\ fvwpc' = [fvwpc EXCEPT ![w] = "waiting"]
              /\ fvCond' = fvCond \cup {w}
    /\ UNCHANGED << quit, fvQueue, block, fvMutex, fvppc, fvtask, fvNextTask,
                    fvmain, fvPosted, fvExecuted >>
    /\ UNCHANGED fvOthers

\* pthread_cond_wait may return without a signal.
FVSpuriousWakeup(w) ==
    /\ fvwpc[w] = "waiting"
    /\ w \in fvCond
    /\ fvCond' = fvCond \ {w}
    /\ UNCHANGED << quit, fvQueue, block, fvMutex, fvwpc, fvppc, fvtask,
                    fvNextTask, fvmain, fvPosted, fvExecuted >>
    /\ UNCHANGED fvOthers

\* __get_task, lines 110-112: woken, pthread_cond_wait re-locks the mutex,
\* the worker unlocks it and goes round the while loop of line 98.
FVWorkerWake(w) ==
    /\ fvwpc[w] = "waiting"
    /\ w \notin fvCond
    /\ fvMutex = -1
    /\ fvwpc' = [fvwpc EXCEPT ![w] = "pop"]
    /\ UNCHANGED << quit, fvQueue, block, fvMutex, fvCond, fvppc, fvtask,
                    fvNextTask, fvmain, fvPosted, fvExecuted >>
    /\ UNCHANGED fvOthers

__thread_pool_worker(w) ==
    \/ FVWorkerLoop(w)
    \/ FVWorkerPop(w)
    \/ FVWorkerLock(w)
    \/ FVWorkerWake(w)

\* thread_pool_terminate, line 197: atomic_store(&pool->quit, 1).
FVTerminateQuit ==
    /\ fvmain = "run"
    /\ quit' = 1
    /\ fvmain' = "nonblock"
    /\ UNCHANGED << fvQueue, block, fvMutex, fvCond, fvwpc, fvppc, fvtask,
                    fvNextTask, fvPosted, fvExecuted >>
    /\ UNCHANGED fvOthers

\* __nonblock, lines 58-59: lock the mutex and clear queue->block.
FVNonblockLock ==
    /\ fvmain = "nonblock"
    /\ fvMutex = -1
    /\ fvMutex' = FVMainThread
    /\ block' = 0
    /\ fvmain' = "unlock"
    /\ UNCHANGED << quit, fvQueue, fvCond, fvwpc, fvppc, fvtask, fvNextTask,
                    fvPosted, fvExecuted >>
    /\ UNCHANGED fvOthers

\* __nonblock, lines 60-62: unlock, then pthread_cond_broadcast.
FVNonblockBroadcast ==
    /\ fvmain = "unlock"
    /\ fvMutex' = -1
    /\ fvCond' = {}
    /\ fvmain' = "wait"
    /\ UNCHANGED << quit, fvQueue, block, fvwpc, fvppc, fvtask, fvNextTask,
                    fvPosted, fvExecuted >>
    /\ UNCHANGED fvOthers

thread_pool_terminate == FVTerminateQuit \/ FVNonblockLock \/ FVNonblockBroadcast

\* thread_pool_wait, lines 243-253: join every worker, then
\* __task_queue_destroy (lines 117-129) pops and frees what is still queued.
thread_pool_wait ==
    /\ fvmain = "wait"
    /\ \A w \in FVWorkers : fvwpc[w] = "exited"
    /\ fvQueue' = << >>
    /\ fvmain' = "done"
    /\ UNCHANGED << quit, block, fvMutex, fvCond, fvwpc, fvppc, fvtask,
                    fvNextTask, fvPosted, fvExecuted >>
    /\ UNCHANGED fvOthers

FVNext ==
    \/ \E p \in FVProducers : thread_pool_post(p)
    \/ \E w \in FVWorkers : __thread_pool_worker(w)
    \/ \E w \in FVWorkers : FVSpuriousWakeup(w)
    \/ thread_pool_terminate
    \/ thread_pool_wait

FVSpec == FVInit /\ [][FVNext]_vars

\* Every thread that can take a step eventually takes one.  The main thread
\* of thread_pool_test.cpp terminates the pool only after its wait loop
\* (lines 40-42), so terminating is not forced; a spurious wake-up is never
\* forced either.
FVFairness ==
    /\ \A p \in FVProducers : WF_vars(thread_pool_post(p))
    /\ \A w \in FVWorkers : WF_vars(__thread_pool_worker(w))

FVFairSpec == FVSpec /\ FVFairness

FVExecutions(t) == Cardinality({i \in 1..Len(fvExecuted) : fvExecuted[i] = t})

\* C27: in the follow_video thread_pool, a task for which thread_pool_post
\* returned 0 is eventually executed by a worker, unless the pool is
\* terminated first, and no task is executed more than once.
C27_PostedExecuted ==
    /\ \A t \in 1..FVMaxTasks :
         (t \in fvPosted) ~> (FVExecutions(t) = 1 \/ quit = 1)
    /\ [](\A t \in 1..FVMaxTasks : FVExecutions(t) <= 1)


\* =========================================================================
\* Part 9: FunctionalMutualExclusionHandle,
\* src/QtProject/MutuallyExclusiveFunction/FunctionalMutualExclusionHandle.cpp
\* and TestFunction.cpp
\* m_registerFunctionMap is the set of registered function ids (every
\* registered FunctionInfo of the tester carries its three callables).
\* m_mutualExclusionMap is the multimap as a set of entries
\* [key, id, info]: info tells whether the entry was stored with the
\* callables of function id (RegisterMutuallyExclusiveRelationship found it
\* registered) or as an empty item.  Every callback handed to
\* QTimer::singleShot is a record [call, kind, fn] in qtTimers; all of them
\* run on the receivers' thread, one at a time, and the order in which
\* timers of equal timeout fire is left open.
\* =========================================================================

qtOthers == << threadPoolVars, taskPoolVars, lfqVars, bbVars, dcpVars,
    cacheVars, ctpVars, fvVars, spVars, alVars, rwVars, cbVars, sgVars >>

QtOthersIdle ==
    ThreadPoolConstructed(0) /\ TaskPoolIdle /\ LFQIdle /\
    BBIdle /\ DCPIdle /\ SCIdle /\ CTPIdle /\ FVIdle /\ SPIdle /\ ALIdle /\
    RWIdle /\ CBIdle /\ SGIdle

\* setupMutualExclusions, TestFunction.cpp lines 129-142: 1 <-> 2 and 2 <-> 3.
SetupPairs == { << 1, 2 >>, << 2, 1 >>, << 2, 3 >>, << 3, 2 >> }

\* The state after MutualExclusionTester's constructor (lines 40-54):
\* three closed functions, all registered, the relationships of
\* setupMutualExclusions stored with the callables of the functions.
QtInit ==
    /\ m_isOpen = [f \in FunctionIds |-> FALSE]
    /\ m_registerFunctionMap = FunctionIds
    /\ m_mutualExclusionMap =
         { [key |-> p[1], id |-> p[2], info |-> TRUE] : p \in SetupPairs }
    /\ qtTimers = {}
    /\ qtCalls = 0
    /\ qtLast = [fn |-> 0, open |-> FALSE]
    /\ qtQuiet = TRUE
    /\ qtClosed = FALSE
    /\ qtRegOps = 0
    /\ QtOthersIdle

\* FunctionOpen, lines 18-31: the entries of equal_range(functionId) whose
\* check and close callables are present, in the entry itself or (lines
\* 21-28) in the function container.
ExclusiveToClose_None(functionId) == {}

ExclusiveToClose(functionId) ==
    { e.id : e \in { x \in m_mutualExclusionMap :
                       /\ x.key = functionId
                       /\ (x.info \/ x.id \in m_registerFunctionMap) } }

\* FunctionOpen(functionId, open), lines 11-57, under m_handleMutex: nothing
\* for an unregistered function; for open one check-and-close callback per
\* exclusive function and then the open callback; else the close callback.
\* At most QtMaxCalls calls are made, and none that would leave more than
\* QtMaxPending callbacks pending.
FunctionOpen(functionId, open) ==
    /\ qtCalls < QtMaxCalls
    /\ LET c == qtCalls + 1
       IN  /\ qtTimers' =
                IF functionId \notin m_registerFunctionMap THEN qtTimers
                ELSE IF open
                  THEN qtTimers
                       \cup { [call |-> c, kind |-> "checkclose", fn |-> g] :
                                g \in ExclusiveToClose(functionId) }
                       \cup { [call |-> c, kind |-> "open", fn |-> functionId] }
                  ELSE qtTimers
                       \cup { [call |-> c, kind |-> "close", fn |-> functionId] }
           /\ Cardinality(qtTimers') <= QtMaxPending
           /\ qtCalls' = c
    /\ qtLast' = [fn |-> functionId, open |-> open]
    /\ qtQuiet' = (qtQuiet /\ qtTimers = {})
    /\ UNCHANGED << m_isOpen, m_registerFunctionMap, m_mutualExclusionMap,
                    qtClosed, qtRegOps >>
    /\ UNCHANGED qtOthers

\* TestFunction::checkFunction, closeFunction and openFunction,
\* TestFunction.cpp lines 9-37, as the callbacks of lines 35-39, 48 and 54
\* apply them to m_isOpen of their function.
RunCallback(kind, isOpen) ==
    CASE kind = "checkclose" -> IF isOpen THEN FALSE ELSE isOpen
      [] kind = "open" -> TRUE
      [] kind = "close" -> FALSE

\* One pending single-shot timer fires and its callback runs.
QtTimerFires(tm) ==
    /\ tm \in qtTimers
    /\ qtTimers' = qtTimers \ {tm}
    /\ m_isOpen' = [m_isOpen EXCEPT ![tm.fn] = RunCallback(tm.kind, @)]
    /\ qtClosed' = (qtClosed \/ (tm.kind = "checkclose" /\ m_isOpen[tm.fn]))
    /\ UNCHANGED << m_registerFunctionMap, m_mutualExclusionMap, qtCalls,
                    qtLast, qtQuiet, qtRegOps >>
    /\ UNCHANGED qtOthers

\* RegisterFunction, lines 59-63.
RegisterFunction(functionID) ==
    /\ qtRegOps < QtMaxRegOps
    /\ m_registerFunctionMap' = m_registerFunctionMap \cup {functionID}
    /\ qtRegOps' = qtRegOps + 1
    /\ UNCHANGED << m_isOpen, m_mutualExclusionMap, qtTimers, qtCalls,
                    qtLast, qtQuiet, qtClosed >>
    /\ UNCHANGED qtOthers

\* UnRegisterFunction, lines 65-69.
UnRegisterFunction(functionID) ==
    /\ qtRegOps < QtMaxRegOps
    /\ m_registerFunctionMap' = m_registerFunctionMap \ {functionID}
    /\ qtRegOps' = qtRegOps + 1
    /\ UNCHANGED << m_isOpen, m_mutualExclusionMap, qtTimers, qtCalls,
                    qtLast, qtQuiet, qtClosed >>
    /\ UNCHANGED qtOthers

\* RegisterMutuallyExclusiveRelationship(functionID, {g}), lines 71-92: the
\* entry carries the callables of g when g is registered, else it is empty.
RegisterMutuallyExclusiveRelationship(functionID, g) ==
    /\ qtRegOps < QtMaxRegOps
    /\ m_mutualExclusionMap' = m_mutualExclusionMap \cup
         { [key |-> functionID, id |-> g, info |-> g \in m_registerFunctionMap] }
    /\ qtRegOps' = qtRegOps + 1
    /\ UNCHANGED << m_isOpen, m_registerFunctionMap, qtTimers, qtCalls,
                    qtLast, qtQuiet, qtClosed >>
    /\ UNCHANGED qtOthers

\* UnregisterMutuallyExclusiveRelationship, lines 94-98.
UnregisterMutuallyExclusiveRelationship(functionID) ==
    /\ qtRegOps < QtMaxRegOps
    /\ m_mutualExclusionMap' = { e \in m_mutualExclusionMap : e.key # functionID }
    /\ qtRegOps' = qtRegOps + 1
    /\ UNCHANGED << m_isOpen, m_registerFunctionMap, qtTimers, qtCalls,
                    qtLast, qtQuiet, qtClosed >>
    /\ UNCHANGED qtOthers

\* The event loop delivers one expired timer.
QtEventLoop == \E tm \in qtTimers : QtTimerFires(tm)

QtNext ==
    \/ \E f \in FunctionIds, open \in BOOLEAN : FunctionOpen(f, open)
    \/ QtEventLoop
    \/ \E f \in FunctionIds : RegisterFunction(f)
    \/ \E f \in FunctionIds : UnRegisterFunction(f)
    \/ \E f, g \in FunctionIds : RegisterMutuallyExclusiveRelationship(f, g)
    \/ \E f \in FunctionIds : UnregisterMutuallyExclusiveRelationship(f)

QtSpec == QtInit /\ [][QtNext]_vars

\* The functions registered as mutually exclusive with f.
MutuallyExclusiveWith(f) == { e.id : e \in { x \in m_mutualExclusionMap : x.key = f } }

\* Every FunctionOpen call so far was made with no callback pending, and the
\* registrations are those of the tester's constructor.
EachFollowedByItsCallbacks ==
    /\ qtRegOps = 0
    /\ qtQuiet

\* C28: with the functions registered and their relationships registered in
\* both directions, and every FunctionOpen call followed by its callbacks:
\* when the last callback scheduled by FunctionOpen(f, true) has run, f is
\* open and every function registered as mutually exclusive with f is
\* closed; and whenever no callback is pending, no two mutually exclusive
\* functions are open together.
C28_MutualExclusion ==
    /\ [][(/\ EachFollowedByItsCallbacks
           /\ qtLast.open
           /\ qtTimers # {}
           /\ qtTimers' = {}
           /\ qtCalls' = qtCalls)
          => /\ m_isOpen'[qtLast.fn]
             /\ \A g \in MutuallyExclusiveWith(qtLast.fn) : ~m_isOpen'[g]]_vars
    /\ [](EachFollowedByItsCallbacks /\ qtTimers = {}
            => \A f \in FunctionIds : \A g \in MutuallyExclusiveWith(f) :
                 ~(m_isOpen[f] /\ m_isOpen[g]))

\* After FunctionOpen calls each followed by its callbacks, one of which
\* closed an open function for the sake of its exclusive partner, the last
\* one being FunctionOpen(3, true): 1 and 3, which have no relationship, are
\* open together and 2 is closed.
C28_Witness ==
    /\ EachFollowedByItsCallbacks
    /\ qtTimers = {}
    /\ qtClosed
    /\ qtLast = [fn |-> 3, open |-> TRUE]
    /\ m_isOpen = [f \in FunctionIds |-> f # 2]


\* =========================================================================
\* Part 10: the ThreadPool classes that set stop under queue_mutex,
\* src/PoolStructure/ThreadPool/practice/thrdPool.cpp ("practice") and
\* src/Study_ThreadPool/yzj/c_vs_cpp/thread_pool/cpp/main.cpp ("c_vs_cpp")
\* The main thread enqueues tasks and then leaves main, which runs the
\* destructor; the tasks of both files terminate.  queue_mutex is -1 when
\* free, else its holder.
\* =========================================================================

spOthers == << threadPoolVars, taskPoolVars, lfqVars, bbVars, dcpVars,
    cacheVars, ctpVars, fvVars, qtVars, alVars, rwVars, cbVars, sgVars >>

SPOthersIdle ==
    ThreadPoolConstructed(0) /\ TaskPoolIdle /\ LFQIdle /\
    BBIdle /\ DCPIdle /\ SCIdle /\ CTPIdle /\ FVIdle /\ QtIdle /\ ALIdle /\
    RWIdle /\ CBIdle /\ SGIdle

\* ThreadPool(threads), thrdPool.cpp lines 19-38, main.cpp lines 16-34:
\* stop is false and every worker is before its first lock.
SPInit ==
    /\ spVariant \in SPVariants
    /\ spStop = FALSE
    /\ spTasks = << >>
    /\ queue_mutex = -1
    /\ condition = {}
    /\ spwpc = [w \in SPWorkers |-> "lock"]
    /\ spcur = [w \in SPWorkers |-> 0]
    /\ spmain = "main"
    /\ spJoin = 0
    /\ spEnqueued = 0
    /\ spExecuted = << >>
    /\ spAtStop = 0
    /\ SPOthersIdle

\* The worker lambda, thrdPool.cpp line 25, main.cpp line 22: lock.
SPWorkerLock(w) ==
    /\ spwpc[w] = "lock"
    /\ queue_mutex = -1
    /\ queue_mutex' = w
    /\ spwpc' = [spwpc EXCEPT ![w] = "check"]
    /\ UNCHANGED << spVariant, spStop, spTasks, condition, spcur, spmain, spJoin,
                    spEnqueued, spExecuted, spAtStop >>
    /\ UNCHANGED spOthers

\* Mutant of SPExitTest: stop alone ends the worker.
SPExitTest_StopOnly(st, q) == st

\* thrdPool.cpp line 29, main.cpp line 26: if (stop && tasks.empty()) return.
SPExitTest(st, q) == st /\ q = << >>

\* thrdPool.cpp lines 26-33, main.cpp lines 23-29, with the lock held: the
\* wait predicate is stop || !tasks.empty(); when it is false the wait
\* releases the lock and blocks; else the worker returns on the exit test or
\* moves out the front task and pops it; the lock is released.
SPWorkerCheck(w) ==
    /\ spwpc[w] = "check"
    /\ queue_mutex' = -1
    /\ IF ~(spStop \/ spTasks # << >>)
         THEN /\ condition' = condition \cup {w}
              /\ spwpc' = [spwpc EXCEPT ![w] = "waiting"]
              /\ UNCHANGED << spTasks, spcur >>
         ELSE IF SPExitTest(spStop, spTasks)
                THEN /\ spwpc' = [spwpc EXCEPT ![w] = "exited"]
                     /\ UNCHANGED << spTasks, spcur, condition >>
                ELSE /\ spcur' = [spcur EXCEPT ![w] = Head(spTasks)]
                     /\ spTasks' = Tail(spTasks)
                     /\ spwpc' = [spwpc EXCEPT ![w] = "run"]
                     /\ UNCHANGED condition
    /\ UNCHANGED << spVariant, spStop, spmain, spJoin, spEnqueued, spExecuted,
                    spAtStop >>
    /\ UNCHANGED spOthers

\* A notified worker re-acquires the lock inside condition.wait and
\* evaluates the predicate again.
SPWorkerWake(w) ==
    /\ spwpc[w] = "waiting"
    /\ w \notin condition
    /\ queue_mutex = -1
    /\ queue_mutex' = w
    /\ spwpc' = [spwpc EXCEPT ![w] = "check"]
    /\ UNCHANGED << spVariant, spStop, spTasks, condition, spcur, spmain, spJoin,
                    spEnqueued, spExecuted, spAtStop >>
    /\ UNCHANGED spOthers

\* std::condition_variable::wait may return without a notification.
SPSpuriousWakeup(w) ==
    /\ spwpc[w] = "waiting"
    /\ w \in condition
    /\ condition' = condition \ {w}
    /\ UNCHANGED << spVariant, spStop, spTasks, queue_mutex, spwpc, spcur, spmain,
                    spJoin, spEnqueued, spExecuted, spAtStop >>
    /\ UNCHANGED spOthers

\* thrdPool.cpp line 34, main.cpp line 30: task() runs and returns.
SPWorkerRun(w) ==
    /\ spwpc[w] = "run"
    /\ spExecuted' = Append(spExecuted, spcur[w])
    /\ spcur' = [spcur EXCEPT ![w] = 0]
    /\ spwpc' = [spwpc EXCEPT ![w] = "lock"]
    /\ UNCHANGED << spVariant, spStop, spTasks, queue_mutex, condition, spmain,
                    spJoin, spEnqueued, spAtStop >>
    /\ UNCHANGED spOthers

SPWorker(w) ==
    \/ SPWorkerLock(w)
    \/ SPWorkerCheck(w)
    \/ SPWorkerWake(w)
    \/ SPWorkerRun(w)

\* enqueue, thrdPool.cpp lines 43-48, main.cpp lines 38-41: under the lock,
\* thrdPool.cpp throws when stop is set (the exception leaves main), else
\* the task is emplaced at the back.
SPEnqueue ==
    /\ spmain = "main"
    /\ spEnqueued < SPMaxTasks
    /\ queue_mutex = -1
    /\ IF spVariant = "practice" /\ spStop
         THEN /\ spmain' = "threw"
              /\ UNCHANGED << spTasks, spEnqueued >>
         ELSE /\ spTasks' = Append(spTasks, spEnqueued + 1)
              /\ spEnqueued' = spEnqueued + 1
              /\ spmain' = "notify"
    /\ UNCHANGED << spVariant, spStop, queue_mutex, condition, spwpc, spcur,
                    spJoin, spExecuted, spAtStop >>
    /\ UNCHANGED spOthers

\* enqueue, thrdPool.cpp line 49, main.cpp line 42: condition.notify_one().
SPEnqueueNotify ==
    /\ spmain = "notify"
    /\ IF condition = {}
         THEN UNCHANGED condition
         ELSE \E w \in condition : condition' = condition \ {w}
    /\ spmain' = "main"
    /\ UNCHANGED << spVariant, spStop, spTasks, queue_mutex, spwpc, spcur, spJoin,
                    spEnqueued, spExecuted, spAtStop >>
    /\ UNCHANGED spOthers

\* main returns (thrdPool.cpp line 92, main.cpp line 81): pool's destructor
\* is called.
SPMainReturns ==
    /\ spmain = "main"
    /\ spmain' = "dtor"
    /\ UNCHANGED << spVariant, spStop, spTasks, queue_mutex, condition, spwpc,
                    spcur, spJoin, spEnqueued, spExecuted, spAtStop >>
    /\ UNCHANGED spOthers

\* ~ThreadPool, thrdPool.cpp lines 53-56, main.cpp lines 46-49: stop = true
\* under the lock.
SPDtorStop ==
    /\ spmain = "dtor"
    /\ queue_mutex = -1
    /\ spStop' = TRUE
    /\ spAtStop' = Len(spTasks)
    /\ spmain' = "notify_all"
    /\ UNCHANGED << spVariant, spTasks, queue_mutex, condition, spwpc, spcur,
                    spJoin, spEnqueued, spExecuted >>
    /\ UNCHANGED spOthers

\* ~ThreadPool, thrdPool.cpp line 57, main.cpp line 50: notify_all.
SPDtorNotifyAll ==
    /\ spmain = "notify_all"
    /\ condition' = {}
    /\ spmain' = "join"
    /\ spJoin' = 1
    /\ UNCHANGED << spVariant, spStop, spTasks, queue_mutex, spwpc, spcur,
                    spEnqueued, spExecuted, spAtStop >>
    /\ UNCHANGED spOthers

\* ~ThreadPool, thrdPool.cpp lines 58-59, main.cpp lines 51-53: join the
\* workers one after the other; the destructor returns after the last.
SPDtorJoin ==
    /\ spmain = "join"
    /\ spwpc[spJoin] = "exited"
    /\ IF spJoin = SPNumThreads
         THEN spmain' = "done" /\ UNCHANGED spJoin
         ELSE spJoin' = spJoin + 1 /\ UNCHANGED spmain
    /\ UNCHANGED << spVariant, spStop, spTasks, queue_mutex, condition, spwpc,
                    spcur, spEnqueued, spExecuted, spAtStop >>
    /\ UNCHANGED spOthers

SPDestructor == SPDtorStop \/ SPDtorNotifyAll \/ SPDtorJoin

SPNext ==
    \/ \E w \in SPWorkers : SPWorker(w)
    \/ \E w \in SPWorkers : SPSpuriousWakeup(w)
    \/ SPEnqueue
    \/ SPEnqueueNotify
    \/ SPMainReturns
    \/ SPDestructor

SPSpec == SPInit /\ [][SPNext]_vars

\* Every thread that can take a step of what it is in eventually takes it;
\* main is not obliged to enqueue or to return, and no spurious wake-up is
\* obliged to happen.  The destructor's lock() is not overtaken for ever by
\* workers that wake spuriously and take the mutex again and again: a mutex
\* that is free infinitely often is eventually given to it.
SPFairness ==
    /\ \A w \in SPWorkers : WF_vars(SPWorker(w))
    /\ WF_vars(SPEnqueueNotify)
    /\ SF_vars(SPDtorStop)
    /\ WF_vars(SPDtorNotifyAll \/ SPDtorJoin)

SPFairSpec == SPSpec /\ SPFairness

SPExecutions(i) == Cardinality({j \in 1..Len(spExecuted) : spExecuted[j] = i})

\* C30: in the ThreadPool classes that set stop under queue_mutex, a
\* destructor that was called eventually returns, and when it has returned
\* every worker has exited, the queue is empty and every task that was
\* enqueued has been executed exactly once.
C30_DestructorDrains ==
    /\ (spmain = "dtor") ~> (spmain = "done")
    /\ [](spmain = "done" =>
            /\ \A w \in SPWorkers : spwpc[w] = "exited"
            /\ spTasks = << >>
            /\ \A i \in 1..spEnqueued : SPExecutions(i) = 1)
    /\ [](\A i \in 1..SPMaxTasks : SPExecutions(i) <= 1)

\* The destructor has returned after it had set stop with tasks still in
\* the queue, all SPMaxTasks tasks having been enqueued.
C30_Witness ==
    /\ spmain = "done"
    /\ spEnqueued = SPMaxTasks
    /\ spAtStop >= 1


\* Fair scheduling for the shutdown of the follow_video thread_pool: as
\* FVFairness, and a thread_pool_terminate that has stored quit goes on
\* through __nonblock, and the main thread then calls thread_pool_wait
\* (thread_pool_test.cpp lines 48-49).
FVShutdownFairness ==
    /\ FVFairness
    /\ WF_vars(FVNonblockLock \/ FVNonblockBroadcast)
    /\ WF_vars(thread_pool_wait)

FVShutdownFairSpec == FVSpec /\ FVShutdownFairness

\* C31: in the follow_video thread_pool, once thread_pool_terminate has set
\* quit and no thread_pool_post is in flight, no task is accepted or queued
\* any more; every worker eventually exits and thread_pool_wait returns; and
\* when thread_pool_wait destroys the queue, no task is executed by it and
\* every accepted task that was not executed is in the queue it frees.
C31_Shutdown ==
    /\ [][(quit = 1 /\ \A p \in FVProducers : fvppc[p] = "idle")
            => (fvPosted' = fvPosted /\ fvQueue' = fvQueue
                /\ \A p \in FVProducers : fvppc'[p] = "idle")
               \/ fvmain' = "done"]_vars
    /\ (quit = 1) ~> (fvmain = "done" /\ \A w \in FVWorkers : fvwpc[w] = "exited")
    /\ [][(fvmain = "wait" /\ fvmain' = "done")
            => /\ fvExecuted' = fvExecuted
               /\ \A t \in fvPosted :
                    FVExecutions(t) >= 1 \/ \E i \in 1..Len(fvQueue) : fvQueue[i] = t]_vars


\* =========================================================================
\* Part 11: AsyncLogger,
\* src/Books/CPPCurrencyProgramming2th/xxx/ch4/design_5.cpp
\* One client thread (testAsyncLogger) calls log, flush and the destructor;
\* the logger thread runs logger().  almtx is -1 when free, else its
\* holder.  A write to logFile (operator<< on the std::ofstream) has a
\* begin and an end; logger() writes its buffer without holding mtx (lines
\* 46-52), so its write can overlap the sync-mode write of log() (line
\* 148): two threads inside the same std::ofstream at once is a data race,
\* after which either line may be in the file or not.
\* =========================================================================

alOthers == << threadPoolVars, taskPoolVars, lfqVars, bbVars, dcpVars,
    cacheVars, ctpVars, fvVars, qtVars, spVars, rwVars, cbVars, sgVars >>

ALOthersIdle ==
    ThreadPoolConstructed(0) /\ TaskPoolIdle /\ LFQIdle /\
    BBIdle /\ DCPIdle /\ SCIdle /\ CTPIdle /\ FVIdle /\ QtIdle /\ SPIdle /\
    RWIdle /\ CBIdle /\ SGIdle

\* AsyncLogger(logFileName), lines 99-109: the flags are false, the queue is
\* empty and the logger thread is started.
ALInit ==
    /\ logQueue = << >>
    /\ almtx = -1
    /\ alcv = {}
    /\ stopLogging = FALSE
    /\ isSyncMode = FALSE
    /\ alBuffer = << >>
    /\ logFile = << >>
    /\ alpc = "loop"
    /\ alExpired = FALSE
    /\ alInWrite = {}
    /\ alRaced = {}
    /\ almain = "main"
    /\ almsg = 0
    /\ alNext = 1
    /\ alFlushes = 0
    /\ alAccepted = {}
    /\ ALOthersIdle

\* The file after thread t has ended writing msg: the line is appended,
\* unless the write overlapped another thread's write, in which case the
\* line may also be missing.
FileAfterWrite(t, msg) ==
    IF t \in alRaced THEN {logFile, Append(logFile, msg)} ELSE {Append(logFile, msg)}

\* Thread t enters operator<< on logFile: if another thread is inside, both
\* writes are racing.
RacedAfterBegin(t) == IF alInWrite # {} THEN alRaced \cup alInWrite \cup {t} ELSE alRaced

\* logger, line 37: while (!stopLogging).
ALLoggerLoop ==
    /\ alpc = "loop"
    /\ alpc' = IF stopLogging THEN "final" ELSE "lock"
    /\ UNCHANGED << logQueue, almtx, alcv, stopLogging, isSyncMode, alBuffer,
                    logFile, alExpired, alInWrite, alRaced, almain, almsg,
                    alNext, alFlushes, alAccepted >>
    /\ UNCHANGED alOthers

\* logger, line 39: lock mtx; the 100 ms of wait_for start.
ALLoggerLock ==
    /\ alpc = "lock"
    /\ almtx = -1
    /\ almtx' = ALLoggerThread
    /\ alExpired' = FALSE
    /\ alpc' = "pred"
    /\ UNCHANGED << logQueue, alcv, stopLogging, isSyncMode, alBuffer, logFile,
                    alInWrite, alRaced, almain, almsg, alNext, alFlushes,
                    alAccepted >>
    /\ UNCHANGED alOthers

\* logger, line 40: the predicate of wait_for, evaluated with mtx held;
\* wait_for returns when it is true or when the time is over.
ALLoggerPred ==
    /\ alpc = "pred"
    /\ alpc' = IF logQueue # << >> \/ stopLogging \/ alExpired THEN "drain" ELSE "block"
    /\ UNCHANGED << logQueue, almtx, alcv, stopLogging, isSyncMode, alBuffer,
                    logFile, alExpired, alInWrite, alRaced, almain, almsg,
                    alNext, alFlushes, alAccepted >>
    /\ UNCHANGED alOthers

\* logger, line 40: wait_for releases mtx and blocks.
ALLoggerWait ==
    /\ alpc = "block"
    /\ almtx' = -1
    /\ alcv' = alcv \cup {ALLoggerThread}
    /\ alpc' = "waiting"
    /\ UNCHANGED << logQueue, stopLogging, isSyncMode, alBuffer, logFile,
                    alExpired, alInWrite, alRaced, almain, almsg, alNext,
                    alFlushes, alAccepted >>
    /\ UNCHANGED alOthers

\* logger, line 40: the 100 ms are over.
ALLoggerTimeout ==
    /\ alpc = "waiting"
    /\ ALLoggerThread \in alcv
    /\ alcv' = alcv \ {ALLoggerThread}
    /\ alExpired' = TRUE
    /\ UNCHANGED << logQueue, almtx, stopLogging, isSyncMode, alBuffer, logFile,
                    alpc, alInWrite, alRaced, almain, almsg, alNext, alFlushes,
                    alAccepted >>
    /\ UNCHANGED alOthers

\* logger, line 40: woken, wait_for re-locks mtx and evaluates the predicate.
ALLoggerWake ==
    /\ alpc = "waiting"
    /\ ALLoggerThread \notin alcv
    /\ almtx = -1
    /\ almtx' = ALLoggerThread
    /\ alpc' = "pred"
    /\ UNCHANGED << logQueue, alcv, stopLogging, isSyncMode, alBuffer, logFile,
                    alExpired, alInWrite, alRaced, almain, almsg, alNext,
                    alFlushes, alAccepted >>
    /\ UNCHANGED alOthers

\* std::condition_variable::wait and wait_for may return without a
\* notification.
ALSpuriousWakeup(t) ==
    /\ t \in alcv
    /\ alcv' = alcv \ {t}
    /\ UNCHANGED << logQueue, almtx, stopLogging, isSyncMode, alBuffer, logFile,
                    alpc, alExpired, alInWrite, alRaced, almain, almsg, alNext,
                    alFlushes, alAccepted >>
    /\ UNCHANGED alOthers

\* logger, lines 41-45: the whole queue is moved into buffer and mtx is
\* released.  Nothing is notified.
ALLoggerDrain ==
    /\ alpc = "drain"
    /\ alBuffer' = alBuffer \o logQueue
    /\ logQueue' = << >>
    /\ almtx' = -1
    /\ alpc' = "write"
    /\ UNCHANGED << alcv, stopLogging, isSyncMode, logFile, alExpired, alInWrite,
                    alRaced, almain, almsg, alNext, alFlushes, alAccepted >>
    /\ UNCHANGED alOthers

\* logger, lines 46-53, without mtx: the next message of buffer starts to be
\* written; after the last one buffer is clear and the loop goes round.
ALLoggerWriteBegin ==
    /\ alpc = "write"
    /\ IF alBuffer = << >>
         THEN /\ alpc' = "loop"
              /\ UNCHANGED << alInWrite, alRaced >>
         ELSE /\ alpc' = "writing"
              /\ alInWrite' = alInWrite \cup {ALLoggerThread}
              /\ alRaced' = RacedAfterBegin(ALLoggerThread)
    /\ UNCHANGED << logQueue, almtx, alcv, stopLogging, isSyncMode, alBuffer,
                    logFile, alExpired, almain, almsg, alNext, alFlushes,
                    alAccepted >>
    /\ UNCHANGED alOthers

\* logger, line 48: logFile << msg << std::endl has ended.
ALLoggerWriteEnd ==
    /\ alpc = "writing"
    /\ logFile' \in FileAfterWrite(ALLoggerThread, Head(alBuffer))
    /\ alBuffer' = Tail(alBuffer)
    /\ alInWrite' = alInWrite \ {ALLoggerThread}
    /\ alRaced' = alRaced \ {ALLoggerThread}
    /\ alpc' = "write"
    /\ UNCHANGED << logQueue, almtx, alcv, stopLogging, isSyncMode, alExpired,
                    almain, almsg, alNext, alFlushes, alAccepted >>
    /\ UNCHANGED alOthers

\* logger, lines 56-71: after the loop, with mtx held, what is left in the
\* queue is written; the thread ends.
ALLoggerFinal ==
    /\ alpc = "final"
    /\ almtx = -1
    /\ logFile' = logFile \o logQueue
    /\ logQueue' = << >>
    /\ alpc' = "exited"
    /\ UNCHANGED << almtx, alcv, stopLogging, isSyncMode, alBuffer, alExpired,
                    alInWrite, alRaced, almain, almsg, alNext, alFlushes,
                    alAccepted >>
    /\ UNCHANGED alOthers

logger ==
    \/ ALLoggerLoop
    \/ ALLoggerLock
    \/ ALLoggerPred
    \/ ALLoggerWait
    \/ ALLoggerTimeout
    \/ ALLoggerWake
    \/ ALLoggerDrain
    \/ ALLoggerWriteBegin
    \/ ALLoggerWriteEnd
    \/ ALLoggerFinal

\* log, lines 130-134: minLogLevel is never initialised (line 32; the test
\* never calls setMinLogLevel), so the level test reads an indeterminate
\* value: the message is dropped or accepted.
ALLogStart ==
    /\ almain = "main"
    /\ alNext <= ALMaxMessages
    /\ alNext' = alNext + 1
    /\ \E accepted \in BOOLEAN :
         IF accepted
           THEN /\ almsg' = alNext
                /\ alAccepted' = alAccepted \cup {alNext}
                /\ almain' = "check"
           ELSE UNCHANGED << almsg, alAccepted, almain >>
    /\ UNCHANGED << logQueue, almtx, alcv, stopLogging, isSyncMode, alBuffer,
                    logFile, alpc, alExpired, alInWrite, alRaced, alFlushes >>
    /\ UNCHANGED alOthers

\* log, lines 135-142: under mtx, isSyncMode = (logQueue.size() >=
\* MAX_QUEUE_SIZE).
ALLogCheck ==
    /\ almain = "check"
    /\ almtx = -1
    /\ isSyncMode' = (Len(logQueue) >= MAX_QUEUE_SIZE)
    /\ almain' = "mode"
    /\ UNCHANGED << logQueue, almtx, alcv, stopLogging, alBuffer, logFile, alpc,
                    alExpired, alInWrite, alRaced, almsg, alNext, alFlushes,
                    alAccepted >>
    /\ UNCHANGED alOthers

\* log, lines 144-148 (sync mode): lock mtx and start writing the message;
\* lines 153-158 (async mode): under mtx, push the message.
ALLogMode ==
    /\ almain = "mode"
    /\ almtx = -1
    /\ IF isSyncMode
         THEN /\ almtx' = ALMainThread
              /\ alInWrite' = alInWrite \cup {ALMainThread}
              /\ alRaced' = RacedAfterBegin(ALMainThread)
              /\ almain' = "syncwriting"
              /\ UNCHANGED logQueue
         ELSE /\ logQueue' = Append(logQueue, almsg)
              /\ almain' = "notify"
              /\ UNCHANGED << almtx, alInWrite, alRaced >>
    /\ UNCHANGED << alcv, stopLogging, isSyncMode, alBuffer, logFile, alpc,
                    alExpired, almsg, alNext, alFlushes, alAccepted >>
    /\ UNCHANGED alOthers

\* log, lines 148-152: the sync-mode write has ended, mtx is released.
ALLogSyncEnd ==
    /\ almain = "syncwriting"
    /\ logFile' \in FileAfterWrite(ALMainThread, almsg)
    /\ alInWrite' = alInWrite \ {ALMainThread}
    /\ alRaced' = alRaced \ {ALMainThread}
    /\ almtx' = -1
    /\ almain' = "main"
    /\ UNCHANGED << logQueue, alcv, stopLogging, isSyncMode, alBuffer, alpc,
                    alExpired, almsg, alNext, alFlushes, alAccepted >>
    /\ UNCHANGED alOthers

\* log, line 159: cv.notify_one().
ALLogNotify ==
    /\ almain = "notify"
    /\ IF alcv = {} THEN UNCHANGED alcv ELSE \E t \in alcv : alcv' = alcv \ {t}
    /\ almain' = "main"
    /\ UNCHANGED << logQueue, almtx, stopLogging, isSyncMode, alBuffer, logFile,
                    alpc, alExpired, alInWrite, alRaced, almsg, alNext,
                    alFlushes, alAccepted >>
    /\ UNCHANGED alOthers

log == ALLogStart \/ ALLogCheck \/ ALLogMode \/ ALLogSyncEnd \/ ALLogNotify

\* flush, lines 165-166: lock mtx; cv.wait(lock, pred) returns when the
\* queue is empty, else it releases mtx and blocks on cv.
ALFlushLock ==
    /\ almain = "main"
    /\ alFlushes < ALMaxFlushes
    /\ almtx = -1
    /\ alFlushes' = alFlushes + 1
    /\ IF logQueue = << >>
         THEN UNCHANGED << almain, alcv >>
         ELSE /\ almain' = "flushwait"
              /\ alcv' = alcv \cup {ALMainThread}
    /\ UNCHANGED << logQueue, almtx, stopLogging, isSyncMode, alBuffer, logFile,
                    alpc, alExpired, alInWrite, alRaced, almsg, alNext,
                    alAccepted >>
    /\ UNCHANGED alOthers

\* flush, lines 166-174: woken, cv.wait re-locks mtx and evaluates the
\* predicate again; flush returns when the queue is empty.
ALFlushWake ==
    /\ almain = "flushwait"
    /\ ALMainThread \notin alcv
    /\ almtx = -1
    /\ IF logQueue = << >>
         THEN almain' = "main" /\ UNCHANGED alcv
         ELSE alcv' = alcv \cup {ALMainThread} /\ UNCHANGED almain
    /\ UNCHANGED << logQueue, almtx, stopLogging, isSyncMode, alBuffer, logFile,
                    alpc, alExpired, alInWrite, alRaced, almsg, alNext,
                    alFlushes, alAccepted >>
    /\ UNCHANGED alOthers

flush == ALFlushLock \/ ALFlushWake

\* ~AsyncLogger, line 112: stopLogging = true (mtx is not taken).
ALDtorStop ==
    /\ almain = "main"
    /\ stopLogging' = TRUE
    /\ almain' = "dnotify"
    /\ UNCHANGED << logQueue, almtx, alcv, isSyncMode, alBuffer, logFile, alpc,
                    alExpired, alInWrite, alRaced, almsg, alNext, alFlushes,
                    alAccepted >>
    /\ UNCHANGED alOthers

\* ~AsyncLogger, line 113: cv.notify_one().
ALDtorNotify ==
    /\ almain = "dnotify"
    /\ IF alcv = {} THEN UNCHANGED alcv ELSE \E t \in alcv : alcv' = alcv \ {t}
    /\ almain' = "join"
    /\ UNCHANGED << logQueue, almtx, stopLogging, isSyncMode, alBuffer, logFile,
                    alpc, alExpired, alInWrite, alRaced, almsg, alNext,
                    alFlushes, alAccepted >>
    /\ UNCHANGED alOthers

\* ~AsyncLogger, lines 114-121: join the logger thread, close the file.
ALDtorJoin ==
    /\ almain = "join"
    /\ alpc = "exited"
    /\ almain' = "done"
    /\ UNCHANGED << logQueue, almtx, alcv, stopLogging, isSyncMode, alBuffer,
                    logFile, alpc, alExpired, alInWrite, alRaced, almsg, alNext,
                    alFlushes, alAccepted >>
    /\ UNCHANGED alOthers

ALDestructor == ALDtorStop \/ ALDtorNotify \/ ALDtorJoin

ALNext ==
    \/ logger
    \/ \E t \in {ALMainThread, ALLoggerThread} : ALSpuriousWakeup(t)
    \/ log
    \/ flush
    \/ ALDestructor

ALSpec == ALInit /\ [][ALNext]_vars

\* The logger thread and a call in progress take their next step, the time
\* of wait_for runs out included; a woken flush gets mtx, which is free
\* again and again (strong fairness); the client is not obliged to start a
\* call, and no spurious wake-up is obliged to happen.
ALFairness ==
    /\ WF_vars(logger)
    /\ WF_vars(ALLogCheck \/ ALLogMode \/ ALLogSyncEnd \/ ALLogNotify)
    /\ SF_vars(ALFlushWake)
    /\ WF_vars(ALDtorNotify \/ ALDtorJoin)

ALFairSpec == ALSpec /\ ALFairness

ALWritten(m) == Cardinality({i \in 1..Len(logFile) : logFile[i] = m})

\* C32: no message is written to the file more than once, and when the
\* destructor has returned every message that log() accepted is in the file
\* exactly once.
C32_WrittenOnce ==
    /\ \A m \in 1..ALMaxMessages : ALWritten(m) <= 1
    /\ almain = "done" => \A m \in alAccepted : ALWritten(m) = 1

\* C33: a flush that blocks because the queue is not empty eventually
\* returns.
C33_FlushReturns == (almain = "flushwait") ~> (almain = "main")


\* =========================================================================
\* Part 12: AtomicReadWriteLock,
\* src/CPPCurrencyProgramming2th/xxx/ch5/design_4.cpp
\* Each thread calls readLock then readUnlock, or writeLock then
\* writeUnlock, again and again.  Every atomic operation is one step; the
\* steps interleave in one total order.
\* =========================================================================

rwOthers == << threadPoolVars, taskPoolVars, lfqVars, bbVars, dcpVars,
    cacheVars, ctpVars, fvVars, qtVars, spVars, alVars, cbVars, sgVars >>

RWOthersIdle ==
    ThreadPoolConstructed(0) /\ TaskPoolIdle /\ LFQIdle /\
    BBIdle /\ DCPIdle /\ SCIdle /\ CTPIdle /\ FVIdle /\ QtIdle /\ SPIdle /\
    ALIdle /\ CBIdle /\ SGIdle

\* AtomicReadWriteLock(), line 13.
RWInit ==
    /\ readers = 0
    /\ writer = FALSE
    /\ rwpc = [t \in RWThreads |-> "idle"]
    /\ oldReaders = [t \in RWThreads |-> 0]
    /\ RWOthersIdle

\* readOperation, line 64: the thread calls readLock.
RWReadCall(t) ==
    /\ rwpc[t] = "idle"
    /\ rwpc' = [rwpc EXCEPT ![t] = "r_wait"]
    /\ UNCHANGED << readers, writer, oldReaders >>
    /\ UNCHANGED rwOthers

\* readLock, lines 19-21: while (writer.load()) yield.
RWReadWait(t) ==
    /\ rwpc[t] = "r_wait"
    /\ ~writer
    /\ rwpc' = [rwpc EXCEPT ![t] = "r_load"]
    /\ UNCHANGED << readers, writer, oldReaders >>
    /\ UNCHANGED rwOthers

\* readLock, line 23: oldReaders = readers.load().
RWReadLoad(t) ==
    /\ rwpc[t] = "r_load"
    /\ oldReaders' = [oldReaders EXCEPT ![t] = readers]
    /\ rwpc' = [rwpc EXCEPT ![t] = "r_cas"]
    /\ UNCHANGED << readers, writer >>
    /\ UNCHANGED rwOthers

\* readLock, line 24: readers.compare_exchange_strong(oldReaders,
\* oldReaders + 1); when it fails the outer loop starts again.
RWReadCas(t) ==
    /\ rwpc[t] = "r_cas"
    /\ IF readers = oldReaders[t]
         THEN /\ readers' = oldReaders[t] + 1
              /\ rwpc' = [rwpc EXCEPT ![t] = "r_recheck"]
         ELSE /\ rwpc' = [rwpc EXCEPT ![t] = "r_wait"]
              /\ UNCHANGED readers
    /\ UNCHANGED << writer, oldReaders >>
    /\ UNCHANGED rwOthers

\* readLock, line 26: the second look at writer.
RecheckWriter_Skipped == FALSE

RecheckWriter == writer

\* readLock, lines 26-31: a writer has come: undo; else the lock is held.
RWReadRecheck(t) ==
    /\ rwpc[t] = "r_recheck"
    /\ rwpc' = [rwpc EXCEPT ![t] = IF RecheckWriter THEN "r_undo" ELSE "reading"]
    /\ UNCHANGED << readers, writer, oldReaders >>
    /\ UNCHANGED rwOthers

\* readLock, line 28: readers.fetch_sub(1), then the outer loop again.
RWReadUndo(t) ==
    /\ rwpc[t] = "r_undo"
    /\ readers' = readers - 1
    /\ rwpc' = [rwpc EXCEPT ![t] = "r_wait"]
    /\ UNCHANGED << writer, oldReaders >>
    /\ UNCHANGED rwOthers

readLock(t) ==
    \/ RWReadCall(t)
    \/ RWReadWait(t)
    \/ RWReadLoad(t)
    \/ RWReadCas(t)
    \/ RWReadRecheck(t)
    \/ RWReadUndo(t)

\* readUnlock, lines 37-39.
readUnlock(t) ==
    /\ rwpc[t] = "reading"
    /\ readers' = readers - 1
    /\ rwpc' = [rwpc EXCEPT ![t] = "idle"]
    /\ UNCHANGED << writer, oldReaders >>
    /\ UNCHANGED rwOthers

\* writeOperation, line 73: the thread calls writeLock.
RWWriteCall(t) ==
    /\ rwpc[t] = "idle"
    /\ rwpc' = [rwpc EXCEPT ![t] = "w_xchg"]
    /\ UNCHANGED << readers, writer, oldReaders >>
    /\ UNCHANGED rwOthers

\* writeLock, lines 45, 52: writer.exchange(true); when it was already true
\* the thread yields and tries again.
RWWriteExchange(t) ==
    /\ rwpc[t] = "w_xchg"
    /\ ~writer
    /\ writer' = TRUE
    /\ rwpc' = [rwpc EXCEPT ![t] = "w_wait"]
    /\ UNCHANGED << readers, oldReaders >>
    /\ UNCHANGED rwOthers

\* writeLock, lines 47-50: while (readers.load() > 0) yield.
RWWriteWait(t) ==
    /\ rwpc[t] = "w_wait"
    /\ ~(readers > 0)
    /\ rwpc' = [rwpc EXCEPT ![t] = "writing"]
    /\ UNCHANGED << readers, writer, oldReaders >>
    /\ UNCHANGED rwOthers

writeLock(t) == RWWriteCall(t) \/ RWWriteExchange(t) \/ RWWriteWait(t)

\* writeUnlock, lines 57-59.
writeUnlock(t) ==
    /\ rwpc[t] = "writing"
    /\ writer' = FALSE
    /\ rwpc' = [rwpc EXCEPT ![t] = "idle"]
    /\ UNCHANGED << readers, oldReaders >>
    /\ UNCHANGED rwOthers

RWThreadStep == \E t \in RWThreads : readLock(t) \/ readUnlock(t) \/ writeLock(t) \/ writeUnlock(t)

RWNext == RWThreadStep

RWSpec == RWInit /\ [][RWNext]_vars

InWrite == {t \in RWThreads : rwpc[t] = "writing"}

InRead == {t \in RWThreads : rwpc[t] = "reading"}

\* C34: at most one thread is inside the write section, no thread is inside
\* a read section while a thread is inside the write section, and the
\* readers counter is never negative.
C34_MutualExclusion ==
    /\ Cardinality(InWrite) <= 1
    /\ InWrite # {} => InRead = {}
    /\ readers >= 0

\* A reader has backed off after its second look at writer, while the writer
\* that made it do so is inside the write section.
C34_Witness ==
    /\ InWrite # {}
    /\ \E t \in RWThreads : rwpc[t] = "r_undo"
    /\ \E t \in RWThreads : rwpc[t] = "w_xchg"


\* =========================================================================
\* Part 13: ThreadSafeCircularBuffer<int>,
\* src/CPPCurrencyProgramming2th/xxx/ch5/design_3.cpp
\* Every load and store of an index and every access to a slot is one step.
\* The values written are 1, 2, ... (all different, as in the demo); a
\* writer whose write returned false tries the same value again (lines
\* 74-76).
\* =========================================================================

cbOthers == << threadPoolVars, taskPoolVars, lfqVars, bbVars, dcpVars,
    cacheVars, ctpVars, fvVars, qtVars, spVars, alVars, rwVars, sgVars >>

CBOthersIdle ==
    ThreadPoolConstructed(0) /\ TaskPoolIdle /\ LFQIdle /\
    BBIdle /\ DCPIdle /\ SCIdle /\ CTPIdle /\ FVIdle /\ QtIdle /\ SPIdle /\
    ALIdle /\ RWIdle /\ SGIdle

\* ThreadSafeCircularBuffer(cap), line 22, used by nw writer threads and nr
\* reader threads.
CBConstructed(nw, nr) ==
    /\ cbBuffer = [i \in 0..(CBCapacity - 1) |-> 0]
    /\ readIndex = 0
    /\ writeIndex = 0
    /\ cbWriters = 1..nw
    /\ cbReaders = 1..nr
    /\ cbwpc = [t \in 1..nw |-> "idle"]
    /\ currentWriteIndex = [t \in 1..nw |-> 0]
    /\ cbValue = [t \in 1..nw |-> 0]
    /\ cbrpc = [t \in 1..nr |-> "idle"]
    /\ currentReadIndex = [t \in 1..nr |-> 0]
    /\ cbResult = [t \in 1..nr |-> 0]
    /\ cbNextValue = 1
    /\ cbWritten = << >>
    /\ cbReadOut = << >>
    /\ CBOthersIdle

\* main, lines 92-106: two writers and two readers.
CBInit == CBConstructed(CBNumWriters, CBNumReaders)

\* One writer and one reader.
CBSpscInit == CBConstructed(1, 1)

\* nextIndex, lines 16-18.
nextIndex(index) == (index + 1) % CBCapacity

\* write, line 30: the buffer is full.
BufferFull_Never(next) == FALSE

BufferFull(next) == next = readIndex

\* write, line 26: the writer takes its value (a new one unless the last
\* write returned false) and loads writeIndex.
CBWriteLoad(t) ==
    /\ t \in cbWriters
    /\ cbwpc[t] = "idle"
    /\ IF cbValue[t] = 0
         THEN /\ cbNextValue <= CBMaxWrites
              /\ cbValue' = [cbValue EXCEPT ![t] = cbNextValue]
              /\ cbNextValue' = cbNextValue + 1
         ELSE UNCHANGED << cbValue, cbNextValue >>
    /\ currentWriteIndex' = [currentWriteIndex EXCEPT ![t] = writeIndex]
    /\ cbwpc' = [cbwpc EXCEPT ![t] = "w_check"]
    /\ UNCHANGED << cbBuffer, readIndex, writeIndex, cbWriters, cbReaders,
                    cbrpc, currentReadIndex, cbResult, cbWritten, cbReadOut >>
    /\ UNCHANGED cbOthers

\* write, lines 27-32: next == readIndex.load(): return false.
CBWriteCheck(t) ==
    /\ t \in cbWriters
    /\ cbwpc[t] = "w_check"
    /\ cbwpc' = [cbwpc EXCEPT ![t] =
                   IF BufferFull(nextIndex(currentWriteIndex[t])) THEN "idle" ELSE "w_store"]
    /\ UNCHANGED << cbBuffer, readIndex, writeIndex, cbWriters, cbReaders,
                    currentWriteIndex, cbValue, cbrpc, currentReadIndex,
                    cbResult, cbNextValue, cbWritten, cbReadOut >>
    /\ UNCHANGED cbOthers

\* write, line 35: buffer[currentWriteIndex] = value.
CBWriteStore(t) ==
    /\ t \in cbWriters
    /\ cbwpc[t] = "w_store"
    /\ cbBuffer' = [cbBuffer EXCEPT ![currentWriteIndex[t]] = cbValue[t]]
    /\ cbwpc' = [cbwpc EXCEPT ![t] = "w_publish"]
    /\ UNCHANGED << readIndex, writeIndex, cbWriters, cbReaders,
                    currentWriteIndex, cbValue, cbrpc, currentReadIndex,
                    cbResult, cbNextValue, cbWritten, cbReadOut >>
    /\ UNCHANGED cbOthers

\* write, lines 36-37: writeIndex.store(next); return true.
CBWritePublish(t) ==
    /\ t \in cbWriters
    /\ cbwpc[t] = "w_publish"
    /\ writeIndex' = nextIndex(currentWriteIndex[t])
    /\ cbWritten' = Append(cbWritten, cbValue[t])
    /\ cbValue' = [cbValue EXCEPT ![t] = 0]
    /\ cbwpc' = [cbwpc EXCEPT ![t] = "idle"]
    /\ UNCHANGED << cbBuffer, readIndex, cbWriters, cbReaders,
                    currentWriteIndex, cbrpc, currentReadIndex, cbResult,
                    cbNextValue, cbReadOut >>
    /\ UNCHANGED cbOthers

write(t) == CBWriteLoad(t) \/ CBWriteCheck(t) \/ CBWriteStore(t) \/ CBWritePublish(t)

\* read, line 42: load readIndex.  (A reader stops calling once more values
\* were read than are ever written.)
CBReadLoad(t) ==
    /\ t \in cbReaders
    /\ cbrpc[t] = "idle"
    /\ Len(cbReadOut) <= CBMaxWrites
    /\ currentReadIndex' = [currentReadIndex EXCEPT ![t] = readIndex]
    /\ cbrpc' = [cbrpc EXCEPT ![t] = "r_check"]
    /\ UNCHANGED << cbBuffer, readIndex, writeIndex, cbWriters, cbReaders,
                    cbwpc, currentWriteIndex, cbValue, cbResult, cbNextValue,
                    cbWritten, cbReadOut >>
    /\ UNCHANGED cbOthers

\* read, lines 45-47: currentReadIndex == writeIndex.load(): return false.
CBReadCheck(t) ==
    /\ t \in cbReaders
    /\ cbrpc[t] = "r_check"
    /\ cbrpc' = [cbrpc EXCEPT ![t] =
                   IF currentReadIndex[t] = writeIndex THEN "idle" ELSE "r_copy"]
    /\ UNCHANGED << cbBuffer, readIndex, writeIndex, cbWriters, cbReaders,
                    cbwpc, currentWriteIndex, cbValue, currentReadIndex,
                    cbResult, cbNextValue, cbWritten, cbReadOut >>
    /\ UNCHANGED cbOthers

\* read, line 50: result = buffer[currentReadIndex].
CBReadCopy(t) ==
    /\ t \in cbReaders
    /\ cbrpc[t] = "r_copy"
    /\ cbResult' = [cbResult EXCEPT ![t] = cbBuffer[currentReadIndex[t]]]
    /\ cbrpc' = [cbrpc EXCEPT ![t] = "r_publish"]
    /\ UNCHANGED << cbBuffer, readIndex, writeIndex, cbWriters, cbReaders,
                    cbwpc, currentWriteIndex, cbValue, currentReadIndex,
                    cbNextValue, cbWritten, cbReadOut >>
    /\ UNCHANGED cbOthers

\* read, lines 51-52: readIndex.store(nextIndex(currentReadIndex)); return
\* true.
CBReadPublish(t) ==
    /\ t \in cbReaders
    /\ cbrpc[t] = "r_publish"
    /\ readIndex' = nextIndex(currentReadIndex[t])
    /\ cbReadOut' = Append(cbReadOut, cbResult[t])
    /\ cbrpc' = [cbrpc EXCEPT ![t] = "idle"]
    /\ UNCHANGED << cbBuffer, writeIndex, cbWriters, cbReaders, cbwpc,
                    currentWriteIndex, cbValue, currentReadIndex, cbResult,
                    cbNextValue, cbWritten >>
    /\ UNCHANGED cbOthers

read(t) == CBReadLoad(t) \/ CBReadCheck(t) \/ CBReadCopy(t) \/ CBReadPublish(t)

CBWriterStep == \E t \in 1..CBNumWriters : write(t)

CBReaderStep == \E t \in 1..CBNumReaders : read(t)

CBNext == CBWriterStep \/ CBReaderStep

CBSpec == CBInit /\ [][CBNext]_vars

CBSpscSpec == CBSpscInit /\ [][CBNext]_vars

CBOccurrences(seq, v) == Cardinality({i \in 1..Len(seq) : seq[i] = v})

\* C35: with two writers and two readers, no value is returned by two reads,
\* every value read is one whose write had started, and a value whose write
\* returned true is either read already or still in its slot (not
\* overwritten before being read).
C35_ExactlyOnce ==
    /\ \A i \in 1..Len(cbReadOut) :
         /\ cbReadOut[i] \in 1..CBMaxWrites
         /\ CBOccurrences(cbReadOut, cbReadOut[i]) = 1
    /\ \A i \in 1..Len(cbWritten) :
         \/ CBOccurrences(cbReadOut, cbWritten[i]) = 1
         \/ \E k \in 0..(CBCapacity - 1) : cbBuffer[k] = cbWritten[i]

\* C36: with one writer and one reader, the values read are the values
\* written, in order, each once; both indices stay in [0, capacity); at most
\* capacity - 1 values are unread; a write returns false only when
\* advancing writeIndex would reach readIndex, a read only when readIndex
\* equals writeIndex, and either then changes nothing.
C36_Spsc ==
    /\ [](/\ IsPrefix(cbReadOut, cbWritten)
          /\ readIndex \in 0..(CBCapacity - 1)
          /\ writeIndex \in 0..(CBCapacity - 1)
          /\ Len(cbWritten) - Len(cbReadOut) <= CBCapacity - 1
          /\ Len(cbWritten) - Len(cbReadOut) = (writeIndex - readIndex + CBCapacity) % CBCapacity)
    /\ [][\A t \in cbWriters : (cbwpc[t] = "w_check" /\ cbwpc'[t] = "idle")
            => /\ nextIndex(writeIndex) = readIndex
               /\ UNCHANGED << cbBuffer, readIndex, writeIndex, cbWritten, cbReadOut >>]_vars
    /\ [][\A t \in cbReaders : (cbrpc[t] = "r_check" /\ cbrpc'[t] = "idle")
            => /\ readIndex = writeIndex
               /\ UNCHANGED << cbBuffer, readIndex, writeIndex, cbWritten, cbReadOut >>]_vars

\* Every value went through the buffer and was read, in order; the indices
\* have wrapped round.
C36_Witness ==
    /\ Len(cbReadOut) = CBMaxWrites
    /\ cbReadOut = cbWritten
    /\ readIndex = writeIndex
    /\ cbValue[1] = 0


\* The field reads of enqueue and dequeue: oldTail->next (lines 63, 65),
\* oldHead->next (line 80) and next->data (line 85).
FieldRead(t) == lfpc[t] \in {"e63", "e65", "d80", "d85"}

\* C37: no thread reads the next or the data field of a node that a dequeue
\* has deleted.
C37_NoUseAfterFree ==
    \A t \in LFQThreads : (~aborted /\ FieldRead(t)) => heap[Dereferenced(t)].live

\* C38: the size counter is never decremented below zero, and getSize()
\* never exceeds the number of enqueue calls that returned true.
C38_SizeNeverWraps ==
    /\ size >= 0
    /\ size <= Len(enqueuedOk)

\* The payload nodes met by following next from the sentinel, as a traversal
\* of the queue meets them (one more than the bound of C39 at most).
LinkedPayload ==
    IF heap[head].live
      THEN ChainFrom(heap[head].next, QueueCapacity + LFQNumThreads)
      ELSE << >>

\* C39: with P threads that may enqueue, the payload nodes linked after the
\* sentinel are never more than capacity + P - 1.
C39_ApproximateCapacity == Len(LinkedPayload) <= QueueCapacity + LFQNumThreads - 1


\* =========================================================================
\* Part 14: double-checked Singleton, src/Basic/Singleton/DoubleChecked.cpp
\* Threads call getInstance concurrently, again and again.  sgMutex is 0
\* when free, else the thread that holds it.  The n-th run of the
\* constructor makes the object at address n.  instance is a plain pointer:
\* the read of line 7 is not ordered with the write of line 10 by the mutex,
\* so a thread that has not synchronised with the writer yet may still read
\* the old null there.
\* =========================================================================

sgOthers == << threadPoolVars, taskPoolVars, lfqVars, bbVars, dcpVars,
    cacheVars, ctpVars, fvVars, qtVars, spVars, alVars, rwVars, cbVars >>

SGOthersIdle ==
    ThreadPoolConstructed(0) /\ TaskPoolIdle /\ LFQIdle /\
    BBIdle /\ DCPIdle /\ SCIdle /\ CTPIdle /\ FVIdle /\ QtIdle /\ SPIdle /\
    ALIdle /\ RWIdle /\ CBIdle

\* Lines 20-21: instance is null, the mutex is free; no thread is inside
\* getInstance.
SGInit ==
    /\ instance = nullptr
    /\ sgMutex = 0
    /\ sgpc = [t \in SGThreads |-> "idle"]
    /\ sgSeen = [t \in SGThreads |-> FALSE]
    /\ constructed = 0
    /\ sgReturned = {}
    /\ SGOthersIdle

\* A thread calls getInstance.
SGCall(t) ==
    /\ sgpc[t] = "idle"
    /\ sgpc' = [sgpc EXCEPT ![t] = "l7"]
    /\ UNCHANGED << instance, sgMutex, sgSeen, constructed, sgReturned >>
    /\ UNCHANGED sgOthers

\* The values the unsynchronised read of line 7 may give thread t.
FirstRead(t) == IF sgSeen[t] THEN {instance} ELSE {nullptr, instance}

\* getInstance, line 7: if (!instance), read without the mutex.
SGFirstCheck(t) ==
    /\ sgpc[t] = "l7"
    /\ \E seen \in FirstRead(t) :
         /\ sgpc' = [sgpc EXCEPT ![t] = IF seen = nullptr THEN "l8" ELSE "l13"]
         /\ sgSeen' = [sgSeen EXCEPT ![t] = seen # nullptr]
    /\ UNCHANGED << instance, sgMutex, constructed, sgReturned >>
    /\ UNCHANGED sgOthers

\* getInstance, line 8: std::lock_guard lock(mutex).
SGLock(t) ==
    /\ sgpc[t] = "l8"
    /\ sgMutex = 0
    /\ sgMutex' = t
    /\ sgpc' = [sgpc EXCEPT ![t] = "l9"]
    /\ UNCHANGED << instance, sgSeen, constructed, sgReturned >>
    /\ UNCHANGED sgOthers

\* getInstance, line 9: the second check, with the mutex held.
SecondCheck_Skipped == TRUE

SecondCheck == instance = nullptr

\* getInstance, lines 9-10: if (!instance) instance = new Singleton().
SGCreate(t) ==
    /\ sgpc[t] = "l9"
    /\ IF SecondCheck
         THEN /\ constructed' = constructed + 1
              /\ instance' = constructed + 1
         ELSE UNCHANGED << instance, constructed >>
    /\ sgpc' = [sgpc EXCEPT ![t] = "l12"]
    /\ UNCHANGED << sgMutex, sgSeen, sgReturned >>
    /\ UNCHANGED sgOthers

\* getInstance, line 12: the lock_guard releases the mutex.
SGUnlock(t) ==
    /\ sgpc[t] = "l12"
    /\ sgMutex' = 0
    /\ sgSeen' = [sgSeen EXCEPT ![t] = TRUE]
    /\ sgpc' = [sgpc EXCEPT ![t] = "l13"]
    /\ UNCHANGED << instance, constructed, sgReturned >>
    /\ UNCHANGED sgOthers

\* getInstance, line 13: return instance.
SGReturn(t) ==
    /\ sgpc[t] = "l13"
    /\ sgReturned' = sgReturned \cup {instance}
    /\ sgpc' = [sgpc EXCEPT ![t] = "idle"]
    /\ UNCHANGED << instance, sgMutex, sgSeen, constructed >>
    /\ UNCHANGED sgOthers

getInstance(t) ==
    \/ SGCall(t)
    \/ SGFirstCheck(t)
    \/ SGLock(t)
    \/ SGCreate(t)
    \/ SGUnlock(t)
    \/ SGReturn(t)

SGNext == \E t \in SGThreads : getInstance(t)

SGSpec == SGInit /\ [][SGNext]_vars

\* C40: the constructor runs at most once, and every call returns the same
\* pointer, which is not null.
C40_OneInstance ==
    /\ constructed <= 1
    /\ nullptr \notin sgReturned
    /\ Cardinality(sgReturned) <= 1

\* A call has returned the instance while another thread, which read null
\* at the first check, holds the mutex after its second check and a third
\* one waits for the mutex.
C40_Witness ==
    /\ sgReturned # {}
    /\ constructed = 1
    /\ \E t \in SGThreads : sgpc[t] = "l12" /\ ~sgSeen[t]
    /\ \E t \in SGThreads : sgpc[t] = "l8"

====
